---- MODULE Spec2Model ----
(***************************************************************************)
(* A model of the DummyBank ledger store of src/bank.py: two JSON          *)
(* documents (accounts.json, a mapping from account number to account      *)
(* record; transactions.json, a list of transaction records) and the       *)
(* operations of class DummyBank that read and rewrite them.               *)
(*                                                                         *)
(* Amounts are Python floats.  The finite amounts of the model are the     *)
(* integer-valued doubles big * 2^53 + val with val small: below 2^53      *)
(* their sums and differences are exact, from 2^53 on they are rounded to  *)
(* the nearest double, ties to the even mantissa.  The two special float   *)
(* values that float() parses from "inf" and "nan" are modelled with their *)
(* IEEE-754 arithmetic and comparisons.                                    *)
(***************************************************************************)
EXTENDS Integers, Sequences, FiniteSets, TLC

VARIABLES
    accounts_file,      \* content of accounts.json
    transactions_file,  \* content of transactions.json
    now,                \* the wall clock read by datetime.datetime.now()
    last,               \* the last completed call: its name and what it returned
    proc,               \* the calls in progress, one per caller, between file reads and writes
    session,            \* the Flask session of the browser
    response            \* what the last web request was answered with

vars == <<accounts_file, transactions_file, now, last, proc, session, response>>

----------------------------------------------------------------------------
(* Bounds of the model *)

MaxAccounts == 2    \* accounts that may be created
MaxAmount == 1      \* largest finite amount a caller passes
MaxBalance == 2     \* largest finite balance an account reaches
MaxLog == 3         \* records the transaction log may hold
MaxTime == 0        \* ticks the clock may advance
MaxCalls == 2       \* calls one caller makes when callers interleave
MaxHistory == 3     \* records of the logs a history is asked of
MaxStamp == 2       \* latest timestamp in those logs
MaxWebLog == 2      \* records in the log while the web interface is explored
MaxFrameAccounts == 3  \* accounts of the store on which a transfer has a bystander

(* Program constants *)

AccountBase == 1000000001

----------------------------------------------------------------------------
(* Python floats: finite values, inf and nan *)

\* the double big * 2^53 + val
Double(big, val) == [kind |-> "fin", big |-> big, val |-> val]

Fin(n) == Double(0, n)
\* float("9007199254740992"), which is 2^53
Big == Double(1, 0)
PosInf == [kind |-> "inf", big |-> 0, val |-> 1]
NaN == [kind |-> "nan", big |-> 0, val |-> 0]
Zero == Fin(0)

IsFinite(a) == a.kind = "fin"

\* a < b on floats: every comparison with nan is false
FLt(a, b) ==
    IF a.kind = "nan" \/ b.kind = "nan" THEN FALSE
    ELSE IF a.kind = "fin" /\ b.kind = "fin"
         THEN a.big < b.big \/ (a.big = b.big /\ a.val < b.val)
    ELSE IF a.kind = "inf" /\ b.kind = "inf" THEN a.val < b.val
    ELSE IF a.kind = "inf" THEN a.val < 0
    ELSE b.val > 0

\* a <= b on floats
FLe(a, b) ==
    IF a.kind = "nan" \/ b.kind = "nan" THEN FALSE
    ELSE ~FLt(b, a)

\* a > b on floats
FGt(a, b) == FLt(b, a)

\* a >= b on floats
FGe(a, b) == FLe(b, a)

\* a == b on floats: nan equals nothing, itself included
FEq(a, b) == a.kind # "nan" /\ b.kind # "nan" /\ a = b

RECURSIVE FloorLog2(_)
FloorLog2(m) == IF m < 2 THEN 0 ELSE 1 + FloorLog2(m \div 2)

RECURSIVE Pow2(_)
Pow2(e) == IF e = 0 THEN 1 ELSE 2 * Pow2(e - 1)

\* the distance between neighbouring doubles around x = big * 2^53 + val > 0:
\* 1 below 2^53, 2 from 2^53 to 2^54, 4 from 2^54 to 2^55, ...
Spacing(big, val) ==
    LET m == IF val < 0 THEN big - 1 ELSE big
    IN IF m = 0 THEN 1 ELSE 2 * Pow2(FloorLog2(m))

\* the double nearest to x = big * 2^53 + val > 0, a tie going to the even mantissa
RoundPositive(big, val) ==
    LET s == Spacing(big, val)
        r == val % s
        low == val - r
        high == low + s
    IN Double(big, IF 2 * r < s THEN low
                   ELSE IF 2 * r > s THEN high
                   ELSE IF (low \div s) % 2 = 0 THEN low
                   ELSE high)

\* the double a sum or difference of integer-valued doubles is rounded to
Round(big, val) ==
    IF big > 0 \/ (big = 0 /\ val >= 0)
    THEN RoundPositive(big, val)
    ELSE LET r == RoundPositive(-big, -val) IN Double(-r.big, -r.val)

\* a + b on floats: nan is absorbing, inf + -inf is nan
FAdd(a, b) ==
    IF a.kind = "nan" \/ b.kind = "nan" THEN NaN
    ELSE IF a.kind = "fin" /\ b.kind = "fin" THEN Round(a.big + b.big, a.val + b.val)
    ELSE IF a.kind = "inf" /\ b.kind = "inf"
         THEN (IF a.val = b.val THEN a ELSE NaN)
    ELSE IF a.kind = "inf" THEN a
    ELSE b

FNeg(a) ==
    IF a.kind = "nan" THEN NaN ELSE [kind |-> a.kind, big |-> -a.big, val |-> -a.val]

\* a - b on floats
FSub(a, b) == FAdd(a, FNeg(b))

----------------------------------------------------------------------------
(* What callers pass *)

Names == {"alice"}
Passwords == {"pw1", "pw2"}
Descriptions == {"memo"}
AmountInputs == {Fin(n) : n \in -1..MaxAmount} \cup {PosInf}
\* what the interleaving callers pass: amounts and a password that pass validation
IOAmountInputs == {Fin(0), Fin(1)}
IOPasswords == {"pw1"}
\* account numbers a caller may name: those that can exist and one that never does
AccountInputs == AccountBase..(AccountBase + MaxAccounts)

----------------------------------------------------------------------------
(* The two documents *)

EmptyAccounts == <<>>
EmptyTransactions == <<>>

\* a file that json.load can read, holding data
Document(data) == [ok |-> TRUE, exists |-> TRUE, data |-> data]

\* a path at which os.path.exists finds nothing and open(path, 'r') raises
\* FileNotFoundError
Missing == [ok |-> FALSE, exists |-> FALSE, data |-> <<>>]

\* a file that exists and in which json.load finds no JSON value: it raises
\* json.JSONDecodeError
Corrupt == [ok |-> FALSE, exists |-> TRUE, data |-> <<>>]

\* json.load of accounts.json; a missing or corrupt file reads as {}
ReadAccounts(file) == IF file.ok THEN file.data ELSE EmptyAccounts

_load_accounts == ReadAccounts(accounts_file)

\* json.dump of the whole mapping
_save_accounts(accounts) == accounts_file' = Document(accounts)

\* json.load of transactions.json; a missing or corrupt file reads as []
ReadTransactions(file) == IF file.ok THEN file.data ELSE EmptyTransactions

_load_transactions == ReadTransactions(transactions_file)

\* json.dump of the whole list
_save_transactions(transactions) == transactions_file' = Document(transactions)

\* mutant: every password has the same digest
_hash_password_constant(password) == <<"sha256", "">>

\* hashlib.sha256(password).hexdigest(): a fixed one-way, collision-free digest
_hash_password(password) == <<"sha256", password>>

RECURSIVE ScanAccountNumber(_, _)
ScanAccountNumber(accounts, account_num) ==
    IF account_num \in DOMAIN accounts
    THEN ScanAccountNumber(accounts, account_num + 1)
    ELSE account_num

\* mutant: the scan for a free number is left out
_generate_account_number_base == AccountBase

\* the first number from the base upward that is not a key
_generate_account_number == ScanAccountNumber(_load_accounts, AccountBase)

\* datetime.datetime.now() read when the clock shows t: the clock does not run backwards
ClockReads(t) == {u \in t..(t + 1) : u <= MaxTime}

\* mutant: ids counted from 0
TransactionRecord_id_from_zero(transactions, account_number, transaction_type, amount, description, related_account, timestamp) ==
    [id |-> Len(transactions),
     account_number |-> account_number,
     transaction_type |-> transaction_type,
     amount |-> amount,
     description |-> description,
     related_account |-> related_account,
     timestamp |-> timestamp]

\* mutant: the owner and the counterparty of the record are exchanged
TransactionRecord_owner_exchanged(transactions, account_number, transaction_type, amount, description, related_account, timestamp) ==
    [id |-> Len(transactions) + 1,
     account_number |-> related_account,
     transaction_type |-> transaction_type,
     amount |-> amount,
     description |-> description,
     related_account |-> account_number,
     timestamp |-> timestamp]

\* the record _record_transaction builds for a log that holds transactions
TransactionRecord(transactions, account_number, transaction_type, amount, description, related_account, timestamp) ==
    [id |-> Len(transactions) + 1,
     account_number |-> account_number,
     transaction_type |-> transaction_type,
     amount |-> amount,
     description |-> description,
     related_account |-> related_account,
     timestamp |-> timestamp]

\* mutant: the record is built and the list saved, but the append is left out
_record_transaction_not_appended(file, account_number, transaction_type, amount, description, related_account, timestamp) ==
    Document(ReadTransactions(file))

\* mutant: the record is inserted at the front of the list
_record_transaction_prepended(file, account_number, transaction_type, amount, description, related_account, timestamp) ==
    LET transactions == ReadTransactions(file)
    IN Document(<<TransactionRecord(transactions, account_number, transaction_type,
                                    amount, description, related_account, timestamp)>>
                \o transactions)

\* mutant: a document that cannot be read is left as it is
_record_transaction_readable_only(file, account_number, transaction_type, amount, description, related_account, timestamp) ==
    IF file.ok
    THEN Document(Append(file.data,
                         TransactionRecord(file.data, account_number, transaction_type,
                                           amount, description, related_account, timestamp)))
    ELSE file

\* transactions.json after _record_transaction ran on file: load, append, save
_record_transaction(file, account_number, transaction_type, amount, description, related_account, timestamp) ==
    LET transactions == ReadTransactions(file)
    IN Document(Append(transactions,
                       TransactionRecord(transactions, account_number, transaction_type,
                                         amount, description, related_account, timestamp)))

\* the account dict create_account builds
AccountRecord(account_number, name, initial_deposit, password, created) ==
    [account_number |-> account_number,
     name |-> name,
     balance |-> initial_deposit,
     password_hash |-> _hash_password(password),
     created_date |-> created,
     status |-> "active"]

\* what a call hands back: a returned mapping, or a raised exception
Return(op, ret) == last' = [op |-> op, ret |-> ret]

Error(message) == [error |-> message]

----------------------------------------------------------------------------
(* The operations of DummyBank *)

\* mutant: initial_deposit < -1
NegativeDeposit_below_minus_one(initial_deposit) == FLt(initial_deposit, Fin(-1))

\* initial_deposit < 0
NegativeDeposit(initial_deposit) == FLt(initial_deposit, Zero)

\* mutant: initial_deposit >= 0
HasInitialDeposit_or_zero(initial_deposit) == FGe(initial_deposit, Zero)

\* initial_deposit > 0
HasInitialDeposit(initial_deposit) == FGt(initial_deposit, Zero)

create_account(name, initial_deposit, password) ==
    IF NegativeDeposit(initial_deposit)
    THEN /\ Return("create_account", [raised |-> "Initial deposit cannot be negative"])
         /\ UNCHANGED <<accounts_file, transactions_file, now>>
    ELSE \E created \in ClockReads(now) :
            LET accounts == _load_accounts
                account_number == _generate_account_number
                account == AccountRecord(account_number, name, initial_deposit,
                                         password, created)
            IN /\ _save_accounts((account_number :> account) @@ accounts)
               /\ IF HasInitialDeposit(initial_deposit)
                  THEN \E timestamp \in ClockReads(created) :
                          /\ transactions_file' =
                                _record_transaction(transactions_file, account_number, "deposit",
                                                    initial_deposit, <<"Initial deposit">>,
                                                    account_number, timestamp)
                          /\ now' = timestamp
                  ELSE /\ UNCHANGED transactions_file
                       /\ now' = created
               /\ Return("create_account",
                         [account_number |-> account_number,
                          name |-> name,
                          balance |-> initial_deposit,
                          status |-> "Account created successfully"])

\* mutant: the password is not compared
authenticate_known_account(account_number, password) ==
    account_number \in DOMAIN _load_accounts

\* mutant: every account number and password is accepted
authenticate_always(account_number, password) == TRUE

\* the stored hash equals the hash of the supplied password; False for an unknown account
authenticate(account_number, password) ==
    LET accounts == _load_accounts
    IN IF account_number \notin DOMAIN accounts
       THEN FALSE
       ELSE accounts[account_number].password_hash = _hash_password(password)

AuthFailure == Error("Invalid account number or password")

\* mutant: the account is looked up before the password is compared, and its
\* absence reported
get_balance_lookup_first(account_number, password) ==
    /\ IF account_number \notin DOMAIN _load_accounts
       THEN Return("get_balance", Error("Account not found"))
       ELSE IF ~authenticate(account_number, password)
       THEN Return("get_balance", AuthFailure)
       ELSE LET account == _load_accounts[account_number]
            IN Return("get_balance",
                      [account_number |-> account_number,
                       name |-> account.name,
                       balance |-> account.balance,
                       status |-> "success"])
    /\ UNCHANGED <<accounts_file, transactions_file, now>>

get_balance(account_number, password) ==
    /\ IF ~authenticate(account_number, password)
       THEN Return("get_balance", AuthFailure)
       ELSE LET account == _load_accounts[account_number]
            IN Return("get_balance",
                      [account_number |-> account_number,
                       name |-> account.name,
                       balance |-> account.balance,
                       status |-> "success"])
    /\ UNCHANGED <<accounts_file, transactions_file, now>>

\* mutant: amount < 0
NonPositive_strict(amount) == FLt(amount, Zero)

\* amount <= 0
NonPositive(amount) == FLe(amount, Zero)

\* mutant: amount < account["balance"]
InsufficientFunds_swapped(balance, amount) == FLt(amount, balance)

\* account["balance"] < amount
InsufficientFunds(balance, amount) == FLt(balance, amount)

deposit(account_number, amount, password, description) ==
    IF NonPositive(amount)
    THEN /\ Return("deposit", Error("Deposit amount must be positive"))
         /\ UNCHANGED <<accounts_file, transactions_file, now>>
    ELSE IF ~authenticate(account_number, password)
    THEN /\ Return("deposit", AuthFailure)
         /\ UNCHANGED <<accounts_file, transactions_file, now>>
    ELSE LET accounts == _load_accounts
             account == accounts[account_number]
             old_balance == account.balance
             new_balance == FAdd(old_balance, amount)
         IN /\ _save_accounts([accounts EXCEPT ![account_number].balance = new_balance])
            /\ \E timestamp \in ClockReads(now) :
                  /\ transactions_file' =
                        _record_transaction(transactions_file, account_number, "deposit",
                                            amount, <<description>>, account_number, timestamp)
                  /\ now' = timestamp
            /\ Return("deposit",
                      [account_number |-> account_number,
                       transaction_type |-> "deposit",
                       amount |-> amount,
                       old_balance |-> old_balance,
                       new_balance |-> new_balance,
                       status |-> "success"])

withdraw(account_number, amount, password, description) ==
    IF NonPositive(amount)
    THEN /\ Return("withdraw", Error("Withdrawal amount must be positive"))
         /\ UNCHANGED <<accounts_file, transactions_file, now>>
    ELSE IF ~authenticate(account_number, password)
    THEN /\ Return("withdraw", AuthFailure)
         /\ UNCHANGED <<accounts_file, transactions_file, now>>
    ELSE LET accounts == _load_accounts
             account == accounts[account_number]
             old_balance == account.balance
             new_balance == FSub(old_balance, amount)
         IN IF InsufficientFunds(account.balance, amount)
            THEN /\ Return("withdraw", Error("Insufficient funds"))
                 /\ UNCHANGED <<accounts_file, transactions_file, now>>
            ELSE /\ _save_accounts([accounts EXCEPT ![account_number].balance = new_balance])
                 /\ \E timestamp \in ClockReads(now) :
                       /\ transactions_file' =
                             _record_transaction(transactions_file, account_number,
                                                 "withdrawal", amount, <<description>>,
                                                 account_number, timestamp)
                       /\ now' = timestamp
                 /\ Return("withdraw",
                           [account_number |-> account_number,
                            transaction_type |-> "withdrawal",
                            amount |-> amount,
                            old_balance |-> old_balance,
                            new_balance |-> new_balance,
                            status |-> "success"])

UnknownAccount == Error("Destination account does not exist")

\* mutant: the destination is not credited
TransferApply_debit_only(accounts, from_account, to_account, amount) ==
    [accounts EXCEPT ![from_account].balance = FSub(@, amount)]

\* mutant: the transfer also marks the source account
TransferApply_marks_source(accounts, from_account, to_account, amount) ==
    [accounts EXCEPT ![from_account].balance = FSub(@, amount),
                     ![from_account].status = "debited",
                     ![to_account].balance = FAdd(@, amount)]

\* from_acc["balance"] -= amount; to_acc["balance"] += amount, both in the loaded mapping
TransferApply(accounts, from_account, to_account, amount) ==
    [accounts EXCEPT ![from_account].balance = FSub(@, amount),
                     ![to_account].balance = FAdd(@, amount)]

\* mutant: the source is debited and saved before the destination is looked up
transfer_debit_before_check(from_account, to_account, amount, password, description) ==
    IF NonPositive(amount)
    THEN /\ Return("transfer", Error("Transfer amount must be positive"))
         /\ UNCHANGED <<accounts_file, transactions_file, now>>
    ELSE IF from_account = to_account
    THEN /\ Return("transfer", Error("Cannot transfer to the same account"))
         /\ UNCHANGED <<accounts_file, transactions_file, now>>
    ELSE IF ~authenticate(from_account, password)
    THEN /\ Return("transfer", AuthFailure)
         /\ UNCHANGED <<accounts_file, transactions_file, now>>
    ELSE LET accounts == _load_accounts
         IN IF InsufficientFunds(accounts[from_account].balance, amount)
            THEN /\ Return("transfer", Error("Insufficient funds"))
                 /\ UNCHANGED <<accounts_file, transactions_file, now>>
            ELSE /\ _save_accounts([accounts EXCEPT ![from_account].balance = FSub(@, amount)])
                 /\ Return("transfer", UnknownAccount)
                 /\ UNCHANGED <<transactions_file, now>>

\* mutant: the password is checked first of all
transfer_authenticate_first(from_account, to_account, amount, password, description) ==
    IF ~authenticate(from_account, password)
    THEN /\ Return("transfer", AuthFailure)
         /\ UNCHANGED <<accounts_file, transactions_file, now>>
    ELSE IF NonPositive(amount)
    THEN /\ Return("transfer", Error("Transfer amount must be positive"))
         /\ UNCHANGED <<accounts_file, transactions_file, now>>
    ELSE /\ Return("transfer", Error("Cannot transfer to the same account"))
         /\ UNCHANGED <<accounts_file, transactions_file, now>>

\* mutant: the destination is looked up before the password is checked
transfer_destination_first(from_account, to_account, amount, password, description) ==
    /\ IF NonPositive(amount)
       THEN Return("transfer", Error("Transfer amount must be positive"))
       ELSE IF from_account = to_account
       THEN Return("transfer", Error("Cannot transfer to the same account"))
       ELSE IF to_account \notin DOMAIN _load_accounts
       THEN Return("transfer", UnknownAccount)
       ELSE IF ~authenticate(from_account, password)
       THEN Return("transfer", AuthFailure)
       ELSE Return("transfer", Error("Insufficient funds"))
    /\ UNCHANGED <<accounts_file, transactions_file, now>>

transfer(from_account, to_account, amount, password, description) ==
    IF NonPositive(amount)
    THEN /\ Return("transfer", Error("Transfer amount must be positive"))
         /\ UNCHANGED <<accounts_file, transactions_file, now>>
    ELSE IF from_account = to_account
    THEN /\ Return("transfer", Error("Cannot transfer to the same account"))
         /\ UNCHANGED <<accounts_file, transactions_file, now>>
    ELSE IF ~authenticate(from_account, password)
    THEN /\ Return("transfer", AuthFailure)
         /\ UNCHANGED <<accounts_file, transactions_file, now>>
    ELSE LET accounts == _load_accounts
         IN IF to_account \notin DOMAIN accounts
            THEN /\ Return("transfer", UnknownAccount)
                 /\ UNCHANGED <<accounts_file, transactions_file, now>>
            ELSE IF InsufficientFunds(accounts[from_account].balance, amount)
            THEN /\ Return("transfer", Error("Insufficient funds"))
                 /\ UNCHANGED <<accounts_file, transactions_file, now>>
            ELSE LET old_from_balance == accounts[from_account].balance
                     old_to_balance == accounts[to_account].balance
                     updated == TransferApply(accounts, from_account, to_account, amount)
                     from_new_balance == updated[from_account].balance
                     to_new_balance == updated[to_account].balance
                 IN /\ _save_accounts(updated)
                    /\ \E t_out \in ClockReads(now) : \E t_in \in ClockReads(t_out) :
                          /\ transactions_file' =
                                _record_transaction(
                                    _record_transaction(transactions_file, from_account,
                                                        "transfer_out", amount,
                                                        <<description, "to", to_account>>,
                                                        to_account, t_out),
                                    to_account, "transfer_in", amount,
                                    <<description, "from", from_account>>,
                                    from_account, t_in)
                          /\ now' = t_in
                    /\ Return("transfer",
                              [from_account |-> from_account,
                               to_account |-> to_account,
                               amount |-> amount,
                               from_old_balance |-> old_from_balance,
                               from_new_balance |-> from_new_balance,
                               to_old_balance |-> old_to_balance,
                               to_new_balance |-> to_new_balance,
                               status |-> "success"])

\* mutant: reverse=True is left out, x goes behind every record that is at most as
\* recent
InsertByTimestamp_ascending(sorted, x) ==
    LET k == Cardinality({i \in 1..Len(sorted) : sorted[i].timestamp <= x.timestamp})
    IN SubSeq(sorted, 1, k) \o <<x>> \o SubSeq(sorted, k + 1, Len(sorted))

\* list.sort(key=timestamp, reverse=True) is stable: x goes behind every record
\* that is at least as recent
InsertByTimestamp(sorted, x) ==
    LET k == Cardinality({i \in 1..Len(sorted) : sorted[i].timestamp >= x.timestamp})
    IN SubSeq(sorted, 1, k) \o <<x>> \o SubSeq(sorted, k + 1, Len(sorted))

RECURSIVE SortNewestFirst(_)
SortNewestFirst(records) ==
    IF records = <<>>
    THEN <<>>
    ELSE InsertByTimestamp(SortNewestFirst(SubSeq(records, 1, Len(records) - 1)),
                           records[Len(records)])

\* account_transactions[:limit] when limit > 0
Truncate(records, limit) ==
    IF limit > 0
    THEN SubSeq(records, 1, IF limit < Len(records) THEN limit ELSE Len(records))
    ELSE records

\* mutant: the read of transactions.json is not guarded, and the exception of an
\* unreadable document leaves the call
get_transaction_history_unguarded(account_number, password, limit) ==
    /\ IF ~authenticate(account_number, password)
       THEN Return("get_transaction_history", AuthFailure)
       ELSE IF ~transactions_file.ok
       THEN Return("get_transaction_history", [raised |-> "JSONDecodeError"])
       ELSE LET account_transactions ==
                    Truncate(SortNewestFirst(
                                 SelectSeq(_load_transactions,
                                           LAMBDA t : t.account_number = account_number)),
                             limit)
            IN Return("get_transaction_history",
                      [account_number |-> account_number,
                       transactions |-> account_transactions,
                       total_transactions |-> Len(account_transactions),
                       status |-> "success"])
    /\ UNCHANGED <<accounts_file, transactions_file, now>>

get_transaction_history(account_number, password, limit) ==
    /\ IF ~authenticate(account_number, password)
       THEN Return("get_transaction_history", AuthFailure)
       ELSE LET transactions == _load_transactions
                account_transactions ==
                    Truncate(SortNewestFirst(
                                 SelectSeq(transactions,
                                           LAMBDA t : t.account_number = account_number)),
                             limit)
            IN Return("get_transaction_history",
                      [account_number |-> account_number,
                       transactions |-> account_transactions,
                       total_transactions |-> Len(account_transactions),
                       status |-> "success"])
    /\ UNCHANGED <<accounts_file, transactions_file, now>>

get_account_info(account_number, password) ==
    /\ IF ~authenticate(account_number, password)
       THEN Return("get_account_info", AuthFailure)
       ELSE LET account == _load_accounts[account_number]
            IN Return("get_account_info",
                      [account_number |-> account_number,
                       name |-> account.name,
                       balance |-> account.balance,
                       created_date |-> account.created_date,
                       status |-> account.status,
                       info |-> "success"])
    /\ UNCHANGED <<accounts_file, transactions_file, now>>

\* the keys of the mapping in the order accounts.items() yields them: the order
\* in which they were inserted, which is the order of the numbers
Items(accounts) ==
    [i \in 1..Cardinality(DOMAIN accounts) |->
        CHOOSE k \in DOMAIN accounts : Cardinality({j \in DOMAIN accounts : j <= k}) = i]

\* mutant: the whole account record is listed
AccountSummary_whole_record(acc_num, acc_data) == acc_data

\* the dict list_all_accounts appends for one account
AccountSummary(acc_num, acc_data) ==
    [account_number |-> acc_num,
     name |-> acc_data.name,
     balance |-> acc_data.balance,
     status |-> acc_data.status,
     created_date |-> acc_data.created_date]

list_all_accounts ==
    /\ LET accounts == _load_accounts
           keys == Items(accounts)
           account_list == [i \in DOMAIN keys |-> AccountSummary(keys[i], accounts[keys[i]])]
       IN Return("list_all_accounts",
                 [accounts |-> account_list,
                  total_accounts |-> Len(account_list),
                  status |-> "success"])
    /\ UNCHANGED <<accounts_file, transactions_file, now>>

\* mutant: both documents are written afresh by every construction
__init___always_writes ==
    /\ accounts_file' = Document(EmptyAccounts)
    /\ transactions_file' = Document(EmptyTransactions)
    /\ Return("__init__", [status |-> "success"])
    /\ UNCHANGED now

\* DummyBank(data_dir): each document that does not exist is written empty
__init__ ==
    /\ accounts_file' = IF ~accounts_file.exists
                        THEN Document(EmptyAccounts)
                        ELSE accounts_file
    /\ transactions_file' = IF ~transactions_file.exists
                            THEN Document(EmptyTransactions)
                            ELSE transactions_file
    /\ Return("__init__", [status |-> "success"])
    /\ UNCHANGED now

----------------------------------------------------------------------------
(* The store, called one operation at a time *)

\* a session that holds no key: a browser without the cookie, or after
\* session.clear()
EmptySession == <<>>

\* no web request was answered yet
NoResponse == [status |-> "none", target |-> "", flash |-> ""]

\* the callers of the store
Procs == {"p1", "p2"}

\* a caller that is in no call; ret is what its last call handed back
Idle(ret, calls) ==
    [pc |-> "idle", op |-> "none", args |-> <<>>, accounts |-> <<>>, number |-> 0,
     pending |-> <<>>, transactions |-> <<>>, ret |-> ret, calls |-> calls]

\* DummyBank(data_dir) on an empty directory: {} and [] are written
Init ==
    /\ accounts_file = Document(EmptyAccounts)
    /\ transactions_file = Document(EmptyTransactions)
    /\ now = 0
    /\ last = [op |-> "__init__", ret |-> [status |-> "success"]]
    /\ proc = [p \in Procs |-> Idle([status |-> "none"], 0)]
    /\ session = EmptySession
    /\ response = NoResponse

Balances == {_load_accounts[a].balance : a \in DOMAIN _load_accounts}

\* the part of the state space the model explores
WithinBounds ==
    /\ Cardinality(DOMAIN _load_accounts) <= MaxAccounts
    /\ Len(_load_transactions) <= MaxLog
    /\ \A b \in Balances : IsFinite(b) => b.val <= MaxBalance /\ b.big <= 1

LimitInputs == -1..MaxLog

\* every call runs from its first line to its return before the next call starts
Alone == WithinBounds' /\ UNCHANGED <<proc, session, response>>

Next ==
    \/ \E name \in Names, initial_deposit \in AmountInputs, password \in Passwords :
          create_account(name, initial_deposit, password) /\ Alone
    \/ \E a \in AccountInputs, amount \in AmountInputs, password \in Passwords,
          description \in Descriptions :
          deposit(a, amount, password, description) /\ Alone
    \/ \E a \in AccountInputs, amount \in AmountInputs, password \in Passwords,
          description \in Descriptions :
          withdraw(a, amount, password, description) /\ Alone
    \/ \E a \in AccountInputs, b \in AccountInputs, amount \in AmountInputs,
          password \in Passwords, description \in Descriptions :
          transfer(a, b, amount, password, description) /\ Alone
    \/ \E a \in AccountInputs, password \in Passwords :
          get_balance(a, password) /\ Alone
    \/ \E a \in AccountInputs, password \in Passwords :
          get_account_info(a, password) /\ Alone
    \/ \E a \in AccountInputs, password \in Passwords, limit \in LimitInputs :
          get_transaction_history(a, password, limit) /\ Alone
    \/ list_all_accounts /\ Alone
    \/ __init__ /\ Alone

Spec == Init /\ [][Next]_vars

----------------------------------------------------------------------------
(* The store on a storage location whose documents may be absent: before the *)
(* first construction, and after a document was removed.                     *)

\* a data directory no store was constructed on
InitStore ==
    /\ accounts_file = Missing
    /\ transactions_file = Missing
    /\ now = 0
    /\ last = [op |-> "none", ret |-> [status |-> "none"]]
    /\ proc = [p \in Procs |-> Idle([status |-> "none"], 0)]
    /\ session = EmptySession
    /\ response = NoResponse

\* a store instance exists: the operations are methods of an instance
Constructed == last.op # "none"

\* accounts.json is removed from the data directory
unlink_accounts ==
    /\ accounts_file.exists
    /\ accounts_file' = Missing
    /\ UNCHANGED <<transactions_file, now, last, proc, session, response>>

\* transactions.json is removed from the data directory
unlink_transactions ==
    /\ transactions_file.exists
    /\ transactions_file' = Missing
    /\ UNCHANGED <<accounts_file, now, last, proc, session, response>>

\* accounts.json is overwritten with bytes that are no JSON
corrupt_accounts ==
    /\ accounts_file.ok
    /\ accounts_file' = Corrupt
    /\ UNCHANGED <<transactions_file, now, last, proc, session, response>>

\* transactions.json is overwritten with bytes that are no JSON
corrupt_transactions ==
    /\ transactions_file.ok
    /\ transactions_file' = Corrupt
    /\ UNCHANGED <<accounts_file, now, last, proc, session, response>>

NextStore ==
    \/ __init__ /\ Alone
    \/ /\ Constructed
       /\ \E name \in Names, initial_deposit \in IOAmountInputs, password \in IOPasswords :
             create_account(name, initial_deposit, password) /\ Alone
    \/ /\ Constructed
       /\ \E a \in AccountInputs, amount \in IOAmountInputs, password \in IOPasswords,
             description \in Descriptions :
             deposit(a, amount, password, description) /\ Alone
    \/ /\ Constructed
       /\ \E a \in AccountInputs, amount \in IOAmountInputs, password \in IOPasswords,
             description \in Descriptions :
             withdraw(a, amount, password, description) /\ Alone
    \/ /\ Constructed
       /\ \E a \in AccountInputs, b \in AccountInputs, amount \in IOAmountInputs,
             password \in IOPasswords, description \in Descriptions :
             transfer(a, b, amount, password, description) /\ Alone
    \/ /\ Constructed
       /\ \E a \in AccountInputs, password \in IOPasswords :
             get_balance(a, password) /\ Alone
    \/ /\ Constructed
       /\ \E a \in AccountInputs, password \in IOPasswords, limit \in LimitInputs :
             get_transaction_history(a, password, limit) /\ Alone
    \/ /\ Constructed
       /\ list_all_accounts /\ Alone
    \/ unlink_accounts
    \/ unlink_transactions
    \/ corrupt_accounts
    \/ corrupt_transactions

SpecStore == InitStore /\ [][NextStore]_vars

----------------------------------------------------------------------------
(* The store with up to three accounts, so that a transfer between two of them *)
(* has a third account to leave alone                                          *)

FrameAccounts == AccountBase..(AccountBase + MaxFrameAccounts - 1)

FrameBounds ==
    /\ Cardinality(DOMAIN _load_accounts) <= MaxFrameAccounts
    /\ Len(_load_transactions) <= MaxLog
    /\ \A b \in Balances : IsFinite(b) => b.val <= MaxBalance /\ b.big <= 1

Framed == FrameBounds' /\ UNCHANGED <<proc, session, response>>

NextFrame ==
    \/ \E name \in Names, initial_deposit \in IOAmountInputs, password \in Passwords :
          create_account(name, initial_deposit, password) /\ Framed
    \/ \E a \in FrameAccounts, amount \in IOAmountInputs, password \in IOPasswords,
          description \in Descriptions :
          deposit(a, amount, password, description) /\ Framed
    \/ \E a \in FrameAccounts, amount \in IOAmountInputs, password \in IOPasswords,
          description \in Descriptions :
          withdraw(a, amount, password, description) /\ Framed
    \/ \E a \in FrameAccounts, b \in FrameAccounts, amount \in IOAmountInputs,
          password \in IOPasswords, description \in Descriptions :
          transfer(a, b, amount, password, description) /\ Framed

SpecFrame == Init /\ [][NextFrame]_vars

----------------------------------------------------------------------------
(* The store holding balances around 2^53, where the doubles are spaced 2 apart *)

LargeDeposits == {Zero, Big}
LargeAmounts == {Fin(1), Fin(2)}

NextLarge ==
    \/ \E name \in Names, initial_deposit \in LargeDeposits, password \in IOPasswords :
          create_account(name, initial_deposit, password) /\ Alone
    \/ \E a \in AccountInputs, amount \in LargeAmounts, password \in IOPasswords,
          description \in Descriptions :
          deposit(a, amount, password, description) /\ Alone
    \/ \E a \in AccountInputs, amount \in LargeAmounts, password \in IOPasswords,
          description \in Descriptions :
          withdraw(a, amount, password, description) /\ Alone

SpecLarge == Init /\ [][NextLarge]_vars

----------------------------------------------------------------------------
(* The store whose callers pass float("nan"), which float() parses from a form *)
(* field or a command line argument, as an amount                              *)

NanAmounts == {Fin(1), NaN}

NextNaN ==
    \/ \E name \in Names, initial_deposit \in NanAmounts, password \in IOPasswords :
          create_account(name, initial_deposit, password) /\ Alone
    \/ \E a \in AccountInputs, amount \in NanAmounts, password \in IOPasswords,
          description \in Descriptions :
          deposit(a, amount, password, description) /\ Alone
    \/ \E a \in AccountInputs, amount \in NanAmounts, password \in IOPasswords,
          description \in Descriptions :
          withdraw(a, amount, password, description) /\ Alone
    \/ \E a \in AccountInputs, b \in AccountInputs, amount \in NanAmounts,
          password \in IOPasswords, description \in Descriptions :
          transfer(a, b, amount, password, description) /\ Alone

SpecNaN == Init /\ [][NextNaN]_vars

----------------------------------------------------------------------------
(* get_transaction_history asked of the logs that _record_transaction builds *)
(* while the clock advances                                                  *)

\* the accounts that own the records
HistoryAccounts == {AccountBase, AccountBase + 1}

\* the logs of at most n records: each record appended by _record_transaction for a
\* deposit of 1, at a time not before the record in front of it
RECURSIVE HistoryLogs(_)
HistoryLogs(n) ==
    IF n = 0
    THEN {EmptyTransactions}
    ELSE LET shorter == HistoryLogs(n - 1)
             longest == {l \in shorter : Len(l) = n - 1}
         IN shorter \cup
            UNION {{ReadTransactions(
                       _record_transaction(Document(l), a, "deposit", Fin(1), <<"memo">>, a, t)) :
                       a \in HistoryAccounts,
                       t \in (IF l = <<>> THEN 0 ELSE l[Len(l)].timestamp)..MaxStamp} :
                   l \in longest}

\* the accounts document that goes with log l: every balance is the sum of the
\* account's deposits
HistoryStore(l) ==
    [a \in HistoryAccounts |->
        AccountRecord(a, "alice",
                      Fin(Cardinality({i \in 1..Len(l) : l[i].account_number = a})),
                      "pw1", 0)]

InitHistory ==
    /\ \E l \in HistoryLogs(MaxHistory) :
          /\ transactions_file = Document(l)
          /\ accounts_file = Document(HistoryStore(l))
          /\ now = IF l = <<>> THEN 0 ELSE l[Len(l)].timestamp
    /\ last = [op |-> "__init__", ret |-> [status |-> "success"]]
    /\ proc = [p \in Procs |-> Idle([status |-> "none"], 0)]
    /\ session = EmptySession
    /\ response = NoResponse

NextHistory ==
    \E a \in AccountInputs, password \in Passwords, limit \in LimitInputs :
       get_transaction_history(a, password, limit) /\ UNCHANGED <<proc, session, response>>

SpecHistory == InitHistory /\ [][NextHistory]_vars

----------------------------------------------------------------------------
(* The store called by several callers at once: a call is a sequence of steps, *)
(* each one whole-file read or one whole-file write, and the steps of the      *)
(* callers interleave.                                                         *)

Args(name, a, b, amount, password, description) ==
    [name |-> name, a |-> a, b |-> b, amount |-> amount, password |-> password,
     description |-> description]

\* caller p passes validation and goes on to its first file access
Enter(p, op, args, pc) ==
    proc' = [proc EXCEPT ![p] = [pc |-> pc, op |-> op, args |-> args, accounts |-> <<>>,
                                 number |-> 0, pending |-> <<>>, transactions |-> <<>>,
                                 ret |-> [status |-> "none"],
                                 calls |-> proc[p].calls + 1]]

\* caller p's call hands back ret
Leave(p, ret) ==
    proc' = [proc EXCEPT ![p] = Idle(ret, IF @.pc = "idle" THEN @.calls + 1 ELSE @.calls)]

\* caller p is in no call and may make another
CanCall(p) == proc[p].pc = "idle" /\ proc[p].calls < MaxCalls

At(p, op, pc) == proc[p].pc = pc /\ proc[p].op = op

\* an entry of the pending list: a _record_transaction call still to be made
Pending(account_number, transaction_type, amount, description, related_account) ==
    [account_number |-> account_number, transaction_type |-> transaction_type,
     amount |-> amount, description |-> description, related_account |-> related_account]

call_create_account(p, name, initial_deposit, password) ==
    /\ CanCall(p)
    /\ IF NegativeDeposit(initial_deposit)
       THEN Leave(p, [raised |-> "Initial deposit cannot be negative"])
       ELSE Enter(p, "create_account",
                  Args(name, 0, 0, initial_deposit, password, <<>>), "load")
    /\ UNCHANGED <<accounts_file, transactions_file, now, last, session, response>>

\* accounts = self._load_accounts()
create_load(p) ==
    /\ At(p, "create_account", "load")
    /\ proc' = [proc EXCEPT ![p].accounts = _load_accounts, ![p].pc = "generate"]
    /\ UNCHANGED <<accounts_file, transactions_file, now, last, session, response>>

\* _generate_account_number reads the file again; the record is put in the mapping
\* loaded before
create_generate(p) ==
    /\ At(p, "create_account", "generate")
    /\ \E created \in ClockReads(now) :
          LET args == proc[p].args
              account_number == _generate_account_number
              account == AccountRecord(account_number, args.name, args.amount,
                                       args.password, created)
          IN /\ proc' = [proc EXCEPT
                            ![p].accounts = (account_number :> account) @@ @,
                            ![p].number = account_number,
                            ![p].pending =
                                IF HasInitialDeposit(args.amount)
                                THEN <<Pending(account_number, "deposit", args.amount,
                                               <<"Initial deposit">>, account_number)>>
                                ELSE <<>>,
                            ![p].ret = [account_number |-> account_number,
                                        name |-> args.name,
                                        balance |-> args.amount,
                                        status |-> "Account created successfully"],
                            ![p].pc = "save"]
             /\ now' = created
    /\ UNCHANGED <<accounts_file, transactions_file, last, session, response>>

call_deposit(p, account_number, amount, password, description) ==
    /\ CanCall(p)
    /\ IF NonPositive(amount)
       THEN Leave(p, Error("Deposit amount must be positive"))
       ELSE Enter(p, "deposit",
                  Args("", account_number, 0, amount, password, description),
                  "authenticate")
    /\ UNCHANGED <<accounts_file, transactions_file, now, last, session, response>>

call_withdraw(p, account_number, amount, password, description) ==
    /\ CanCall(p)
    /\ IF NonPositive(amount)
       THEN Leave(p, Error("Withdrawal amount must be positive"))
       ELSE Enter(p, "withdraw",
                  Args("", account_number, 0, amount, password, description),
                  "authenticate")
    /\ UNCHANGED <<accounts_file, transactions_file, now, last, session, response>>

call_transfer(p, from_account, to_account, amount, password, description) ==
    /\ CanCall(p)
    /\ IF NonPositive(amount)
       THEN Leave(p, Error("Transfer amount must be positive"))
       ELSE IF from_account = to_account
       THEN Leave(p, Error("Cannot transfer to the same account"))
       ELSE Enter(p, "transfer",
                  Args("", from_account, to_account, amount, password, description),
                  "authenticate")
    /\ UNCHANGED <<accounts_file, transactions_file, now, last, session, response>>

\* if not self.authenticate(account_number, password): one read of accounts.json
authenticate_step(p) ==
    /\ proc[p].pc = "authenticate"
    /\ IF ~authenticate(proc[p].args.a, proc[p].args.password)
       THEN Leave(p, AuthFailure)
       ELSE proc' = [proc EXCEPT ![p].pc = "load"]
    /\ UNCHANGED <<accounts_file, transactions_file, now, last, session, response>>

\* accounts[account_number] on a mapping that no longer holds the key
KeyError == [raised |-> "KeyError"]

\* the second read of accounts.json in deposit, and the update of the loaded mapping
deposit_load(p) ==
    /\ At(p, "deposit", "load")
    /\ LET args == proc[p].args
           accounts == _load_accounts
       IN IF args.a \notin DOMAIN accounts
          THEN Leave(p, KeyError)
          ELSE LET old_balance == accounts[args.a].balance
                   new_balance == FAdd(old_balance, args.amount)
               IN proc' = [proc EXCEPT
                              ![p].accounts = [accounts EXCEPT ![args.a].balance = new_balance],
                              ![p].pending = <<Pending(args.a, "deposit", args.amount,
                                                       <<args.description>>, args.a)>>,
                              ![p].ret = [account_number |-> args.a,
                                          transaction_type |-> "deposit",
                                          amount |-> args.amount,
                                          old_balance |-> old_balance,
                                          new_balance |-> new_balance,
                                          status |-> "success"],
                              ![p].pc = "save"]
    /\ UNCHANGED <<accounts_file, transactions_file, now, last, session, response>>

\* mutant: the balance the call loaded is debited without the funds check
withdraw_load_unchecked(p) ==
    /\ At(p, "withdraw", "load")
    /\ LET args == proc[p].args
           accounts == _load_accounts
       IN IF args.a \notin DOMAIN accounts
          THEN Leave(p, KeyError)
          ELSE LET old_balance == accounts[args.a].balance
                   new_balance == FSub(old_balance, args.amount)
               IN proc' = [proc EXCEPT
                              ![p].accounts = [accounts EXCEPT ![args.a].balance = new_balance],
                              ![p].pending = <<Pending(args.a, "withdrawal", args.amount,
                                                       <<args.description>>, args.a)>>,
                              ![p].ret = [account_number |-> args.a,
                                          transaction_type |-> "withdrawal",
                                          amount |-> args.amount,
                                          old_balance |-> old_balance,
                                          new_balance |-> new_balance,
                                          status |-> "success"],
                              ![p].pc = "save"]
    /\ UNCHANGED <<accounts_file, transactions_file, now, last, session, response>>

\* the second read of accounts.json in withdraw, the funds check and the update
withdraw_load(p) ==
    /\ At(p, "withdraw", "load")
    /\ LET args == proc[p].args
           accounts == _load_accounts
       IN IF args.a \notin DOMAIN accounts
          THEN Leave(p, KeyError)
          ELSE IF InsufficientFunds(accounts[args.a].balance, args.amount)
          THEN Leave(p, Error("Insufficient funds"))
          ELSE LET old_balance == accounts[args.a].balance
                   new_balance == FSub(old_balance, args.amount)
               IN proc' = [proc EXCEPT
                              ![p].accounts = [accounts EXCEPT ![args.a].balance = new_balance],
                              ![p].pending = <<Pending(args.a, "withdrawal", args.amount,
                                                       <<args.description>>, args.a)>>,
                              ![p].ret = [account_number |-> args.a,
                                          transaction_type |-> "withdrawal",
                                          amount |-> args.amount,
                                          old_balance |-> old_balance,
                                          new_balance |-> new_balance,
                                          status |-> "success"],
                              ![p].pc = "save"]
    /\ UNCHANGED <<accounts_file, transactions_file, now, last, session, response>>

\* the second read of accounts.json in transfer, its checks and both updates
transfer_load(p) ==
    /\ At(p, "transfer", "load")
    /\ LET args == proc[p].args
           accounts == _load_accounts
       IN IF args.b \notin DOMAIN accounts
          THEN Leave(p, UnknownAccount)
          ELSE IF args.a \notin DOMAIN accounts
          THEN Leave(p, KeyError)
          ELSE IF InsufficientFunds(accounts[args.a].balance, args.amount)
          THEN Leave(p, Error("Insufficient funds"))
          ELSE LET updated == TransferApply(accounts, args.a, args.b, args.amount)
               IN proc' = [proc EXCEPT
                              ![p].accounts = updated,
                              ![p].pending =
                                  <<Pending(args.a, "transfer_out", args.amount,
                                            <<args.description, "to", args.b>>, args.b),
                                    Pending(args.b, "transfer_in", args.amount,
                                            <<args.description, "from", args.a>>, args.a)>>,
                              ![p].ret = [from_account |-> args.a,
                                          to_account |-> args.b,
                                          amount |-> args.amount,
                                          from_old_balance |-> accounts[args.a].balance,
                                          from_new_balance |-> updated[args.a].balance,
                                          to_old_balance |-> accounts[args.b].balance,
                                          to_new_balance |-> updated[args.b].balance,
                                          status |-> "success"],
                              ![p].pc = "save"]
    /\ UNCHANGED <<accounts_file, transactions_file, now, last, session, response>>

\* mutant: a deposit applies its amount to the document as it is when it is
\* written, not to the mapping the call loaded
save_step_read_modify_write(p) ==
    /\ proc[p].pc = "save"
    /\ IF proc[p].op = "deposit"
       THEN _save_accounts([_load_accounts EXCEPT
                               ![proc[p].args.a].balance = FAdd(@, proc[p].args.amount)])
       ELSE _save_accounts(proc[p].accounts)
    /\ IF proc[p].pending = <<>>
       THEN Leave(p, proc[p].ret)
       ELSE proc' = [proc EXCEPT ![p].pc = "record_load"]
    /\ UNCHANGED <<transactions_file, now, last, session, response>>

\* mutant: the call goes on to its records without writing accounts.json
save_step_skipped(p) ==
    /\ proc[p].pc = "save"
    /\ IF proc[p].pending = <<>>
       THEN Leave(p, proc[p].ret)
       ELSE proc' = [proc EXCEPT ![p].pc = "record_load"]
    /\ UNCHANGED <<accounts_file, transactions_file, now, last, session, response>>

\* mutant: the mapping of the call is merged into the document as it is when it is
\* written, so that the accounts others saved since the load are kept
save_step_merged(p) ==
    /\ proc[p].pc = "save"
    /\ _save_accounts(proc[p].accounts @@ _load_accounts)
    /\ IF proc[p].pending = <<>>
       THEN Leave(p, proc[p].ret)
       ELSE proc' = [proc EXCEPT ![p].pc = "record_load"]
    /\ UNCHANGED <<transactions_file, now, last, session, response>>

\* self._save_accounts(accounts): the one write of accounts.json a call makes
save_step(p) ==
    /\ proc[p].pc = "save"
    /\ _save_accounts(proc[p].accounts)
    /\ IF proc[p].pending = <<>>
       THEN Leave(p, proc[p].ret)
       ELSE proc' = [proc EXCEPT ![p].pc = "record_load"]
    /\ UNCHANGED <<transactions_file, now, last, session, response>>

\* mutant: all the records of the call are appended to the one list it loads
record_load_all_pending(p) ==
    /\ proc[p].pc = "record_load"
    /\ \E timestamp \in ClockReads(now) :
          LET transactions == _load_transactions
              r == proc[p].pending
              first == Append(transactions,
                              TransactionRecord(transactions, r[1].account_number,
                                                r[1].transaction_type, r[1].amount,
                                                r[1].description, r[1].related_account,
                                                timestamp))
          IN /\ proc' = [proc EXCEPT
                            ![p].transactions =
                                IF Len(r) = 1
                                THEN first
                                ELSE Append(first,
                                            TransactionRecord(first, r[2].account_number,
                                                              r[2].transaction_type, r[2].amount,
                                                              r[2].description,
                                                              r[2].related_account, timestamp)),
                            ![p].pc = "record_save"]
             /\ now' = timestamp
    /\ UNCHANGED <<accounts_file, transactions_file, last, session, response>>

\* _record_transaction, up to transactions.append(transaction)
record_load(p) ==
    /\ proc[p].pc = "record_load"
    /\ \E timestamp \in ClockReads(now) :
          LET r == Head(proc[p].pending)
              transactions == _load_transactions
          IN /\ proc' = [proc EXCEPT
                            ![p].transactions =
                                Append(transactions,
                                       TransactionRecord(transactions, r.account_number,
                                                         r.transaction_type, r.amount,
                                                         r.description, r.related_account,
                                                         timestamp)),
                            ![p].pc = "record_save"]
             /\ now' = timestamp
    /\ UNCHANGED <<accounts_file, transactions_file, last, session, response>>

\* mutant: the new record is appended to the log as it is when it is written, with
\* the id computed from the log the call loaded
record_save_appended_to_current(p) ==
    /\ proc[p].pc = "record_save"
    /\ _save_transactions(Append(_load_transactions,
                                 proc[p].transactions[Len(proc[p].transactions)]))
    /\ IF Len(proc[p].pending) = 1
       THEN Leave(p, proc[p].ret)
       ELSE proc' = [proc EXCEPT ![p].pending = Tail(@), ![p].pc = "record_load"]
    /\ UNCHANGED <<accounts_file, now, last, session, response>>

\* _record_transaction's self._save_transactions(transactions)
record_save(p) ==
    /\ proc[p].pc = "record_save"
    /\ _save_transactions(proc[p].transactions)
    /\ IF Len(proc[p].pending) = 1
       THEN Leave(p, proc[p].ret)
       ELSE proc' = [proc EXCEPT ![p].pending = Tail(@), ![p].pc = "record_load"]
    /\ UNCHANGED <<accounts_file, now, last, session, response>>

NextIO ==
    \E p \in Procs :
       \/ \E name \in Names, initial_deposit \in IOAmountInputs, password \in IOPasswords :
             call_create_account(p, name, initial_deposit, password)
       \/ \E a \in AccountInputs, amount \in IOAmountInputs, password \in IOPasswords,
             description \in Descriptions :
             call_deposit(p, a, amount, password, description)
       \/ \E a \in AccountInputs, amount \in IOAmountInputs, password \in IOPasswords,
             description \in Descriptions :
             call_withdraw(p, a, amount, password, description)
       \/ \E a \in AccountInputs, b \in AccountInputs, amount \in IOAmountInputs,
             password \in IOPasswords, description \in Descriptions :
             call_transfer(p, a, b, amount, password, description)
       \/ create_load(p)
       \/ create_generate(p)
       \/ authenticate_step(p)
       \/ deposit_load(p)
       \/ withdraw_load(p)
       \/ transfer_load(p)
       \/ save_step(p) /\ WithinBounds'
       \/ record_load(p)
       \/ record_save(p) /\ WithinBounds'

SpecIO == Init /\ [][NextIO]_vars

----------------------------------------------------------------------------
(* The same steps with the calls made one at a time: a caller starts a call, *)
(* or takes a step of its call, only while no other caller is in a call.     *)

\* no caller but p is in a call
Serial(p) == \A q \in Procs \ {p} : proc[q].pc = "idle"

NextSerial ==
    \E p \in Procs :
       \/ \E name \in Names, initial_deposit \in IOAmountInputs, password \in Passwords :
             Serial(p) /\ call_create_account(p, name, initial_deposit, password)
       \/ \E a \in AccountInputs, amount \in IOAmountInputs, password \in Passwords,
             description \in Descriptions :
             Serial(p) /\ call_deposit(p, a, amount, password, description)
       \/ \E a \in AccountInputs, amount \in IOAmountInputs, password \in Passwords,
             description \in Descriptions :
             Serial(p) /\ call_withdraw(p, a, amount, password, description)
       \/ \E a \in AccountInputs, b \in AccountInputs, amount \in IOAmountInputs,
             password \in Passwords, description \in Descriptions :
             Serial(p) /\ call_transfer(p, a, b, amount, password, description)
       \/ Serial(p) /\ create_load(p)
       \/ Serial(p) /\ create_generate(p)
       \/ Serial(p) /\ authenticate_step(p)
       \/ Serial(p) /\ deposit_load(p)
       \/ Serial(p) /\ withdraw_load(p)
       \/ Serial(p) /\ transfer_load(p)
       \/ Serial(p) /\ save_step(p) /\ WithinBounds'
       \/ Serial(p) /\ record_load(p)
       \/ Serial(p) /\ record_save(p) /\ WithinBounds'

SpecSerial == Init /\ [][NextSerial]_vars

----------------------------------------------------------------------------
(* The web interface: the routes of app.py called by one browser, one request *)
(* at a time, on the shared store                                              *)

\* a form value is a sequence of characters
DigitChars == {"0", "1", "2", "3", "4", "5", "6", "7", "8", "9"}

DigitValue(c) ==
    CASE c = "0" -> 0 [] c = "1" -> 1 [] c = "2" -> 2 [] c = "3" -> 3 [] c = "4" -> 4
      [] c = "5" -> 5 [] c = "6" -> 6 [] c = "7" -> 7 [] c = "8" -> 8 [] c = "9" -> 9

\* the number a sequence of decimal digits writes
RECURSIVE Decimal(_)
Decimal(digits) ==
    IF digits = <<>>
    THEN 0
    ELSE 10 * Decimal(SubSeq(digits, 1, Len(digits) - 1)) + DigitValue(digits[Len(digits)])

\* str.strip(): the blanks at both ends are dropped
RECURSIVE Strip(_)
Strip(s) ==
    IF s = <<>> THEN s
    ELSE IF Head(s) = " " THEN Strip(Tail(s))
    ELSE IF s[Len(s)] = " " THEN Strip(SubSeq(s, 1, Len(s) - 1))
    ELSE s

\* float(s) raised ValueError
ValueError == [kind |-> "ValueError", big |-> 0, val |-> 0]

\* float(s) for the literals the forms carry: an optional sign, then decimal digits,
\* inf or nan, blanks around it ignored; anything else raises ValueError
float(s) ==
    LET t == Strip(s)
        negative == t # <<>> /\ Head(t) = "-"
        body == IF t # <<>> /\ Head(t) \in {"-", "+"} THEN Tail(t) ELSE t
        magnitude ==
            IF body = <<"i", "n", "f">> THEN PosInf
            ELSE IF body = <<"n", "a", "n">> THEN NaN
            ELSE IF body # <<>> /\ \A i \in 1..Len(body) : body[i] \in DigitChars
            THEN Fin(Decimal(body))
            ELSE ValueError
    IN IF magnitude = ValueError THEN ValueError
       ELSE IF negative THEN FNeg(magnitude)
       ELSE magnitude

\* request.form.get(key, default)
Get(form, key, default) == IF key \in DOMAIN form THEN form[key] ELSE default

\* the account-number field left empty
EmptyNumber == 0

\* the limit the history route passes
HistoryLimit == 50

\* the shortest password the registration form accepts
MinPasswordLength == 4

\* redirect(url_for(target)) after flash(message)
Redirect(target, message) == [status |-> "redirect", target |-> target, flash |-> message]

\* render_template(template) after flash(message)
Render(template, message) == [status |-> "render", target |-> template, flash |-> message]

\* the request did not reach the store
NoStoreCall == UNCHANGED <<accounts_file, transactions_file, now, last>>

LoginRequired == Redirect("login", "Please log in to access your account.")

index ==
    /\ response' = IF "account_number" \in DOMAIN session
                   THEN Redirect("dashboard", "")
                   ELSE Redirect("login", "")
    /\ NoStoreCall
    /\ UNCHANGED <<session, proc>>

\* mutant: the session is filled before the password is checked
login_session_first(method, form) ==
    /\ method = "POST"
    /\ LET account_number == Get(form, "account_number", EmptyNumber)
       IN /\ account_number # EmptyNumber
          /\ session' = ("account_number" :> account_number) @@ session
          /\ response' = Redirect("dashboard", "Welcome back")
    /\ NoStoreCall
    /\ UNCHANGED proc

login(method, form) ==
    /\ IF method = "POST"
       THEN LET account_number == Get(form, "account_number", EmptyNumber)
                password == Get(form, "password", "")
            IN IF account_number = EmptyNumber \/ password = ""
               THEN /\ response' = Render("login.html",
                                          "Please enter both account number and password.")
                    /\ NoStoreCall
                    /\ UNCHANGED session
               ELSE IF authenticate(account_number, password)
               THEN /\ get_account_info(account_number, password)
                    /\ IF "error" \notin DOMAIN last'.ret
                       THEN /\ session' = ("account_number" :> account_number)
                                          @@ ("account_name" :> last'.ret.name)
                                          @@ session
                            /\ response' = Redirect("dashboard", "Welcome back")
                       ELSE /\ response' = Render("login.html",
                                                  "Invalid account number or password.")
                            /\ UNCHANGED session
               ELSE /\ response' = Render("login.html",
                                          "Invalid account number or password.")
                    /\ NoStoreCall
                    /\ UNCHANGED session
       ELSE /\ response' = Render("login.html", "")
            /\ NoStoreCall
            /\ UNCHANGED session
    /\ UNCHANGED proc

register(method, form) ==
    /\ IF method = "POST"
       THEN \E initial_deposit \in {Strip(Get(form, "initial_deposit", <<"0">>))} :
            \E parsed \in {IF initial_deposit # <<>> THEN float(initial_deposit) ELSE Zero} :
            LET name == Get(form, "name", "")
                password == Get(form, "password", "")
                confirm_password == Get(form, "confirm_password", "")
                Refuse(message) ==
                    /\ response' = Render("register.html", message)
                    /\ NoStoreCall
                    /\ UNCHANGED session
            IN IF name = "" THEN Refuse("Name is required.")
               ELSE IF password = "" THEN Refuse("Password is required.")
               ELSE IF password # confirm_password THEN Refuse("Passwords do not match.")
               ELSE IF Len(password) < MinPasswordLength
               THEN Refuse("Password must be at least 4 characters long.")
               ELSE IF parsed = ValueError THEN Refuse("Invalid initial deposit amount.")
               ELSE IF FLt(parsed, Zero) THEN Refuse("Initial deposit cannot be negative.")
               ELSE /\ create_account(name, parsed, password)
                    /\ IF "raised" \in DOMAIN last'.ret
                       THEN /\ response' = Render("register.html",
                                                  "Error creating account. Please try again.")
                            /\ UNCHANGED session
                       ELSE /\ session' = ("account_number" :> last'.ret.account_number)
                                          @@ ("account_name" :> name)
                                          @@ session
                            /\ response' = Redirect("dashboard",
                                                    "Account created successfully!")
       ELSE /\ response' = Render("register.html", "")
            /\ NoStoreCall
            /\ UNCHANGED session
    /\ UNCHANGED proc

logout ==
    /\ session' = EmptySession
    /\ response' = Redirect("login", "You have been logged out successfully.")
    /\ NoStoreCall
    /\ UNCHANGED proc

dashboard ==
    /\ response' = IF "account_number" \notin DOMAIN session
                   THEN LoginRequired
                   ELSE Render("dashboard.html", "")
    /\ NoStoreCall
    /\ UNCHANGED <<session, proc>>

deposit_route(method, form) ==
    /\ IF "account_number" \notin DOMAIN session
       THEN response' = LoginRequired /\ NoStoreCall
       ELSE IF method = "POST"
       THEN \E amount \in {float(Strip(Get(form, "amount", <<>>)))} :
            LET description == Get(form, "description", "Web deposit")
                password == Get(form, "password", "")
                Refuse(message) ==
                    response' = Render("deposit.html", message) /\ NoStoreCall
            IN IF password = "" THEN Refuse("Password is required for transactions.")
               ELSE IF amount = ValueError THEN Refuse("Invalid amount entered.")
               ELSE IF FLe(amount, Zero) THEN Refuse("Deposit amount must be positive.")
               ELSE /\ deposit(session.account_number, amount, password, description)
                    /\ response' = IF "error" \in DOMAIN last'.ret
                                   THEN Render("deposit.html", last'.ret.error)
                                   ELSE Redirect("dashboard", "Successfully deposited")
       ELSE response' = Render("deposit.html", "") /\ NoStoreCall
    /\ UNCHANGED <<session, proc>>

withdraw_route(method, form) ==
    /\ IF "account_number" \notin DOMAIN session
       THEN response' = LoginRequired /\ NoStoreCall
       ELSE IF method = "POST"
       THEN \E amount \in {float(Strip(Get(form, "amount", <<>>)))} :
            LET description == Get(form, "description", "Web withdrawal")
                password == Get(form, "password", "")
                Refuse(message) ==
                    response' = Render("withdraw.html", message) /\ NoStoreCall
            IN IF password = "" THEN Refuse("Password is required for transactions.")
               ELSE IF amount = ValueError THEN Refuse("Invalid amount entered.")
               ELSE IF FLe(amount, Zero) THEN Refuse("Withdrawal amount must be positive.")
               ELSE /\ withdraw(session.account_number, amount, password, description)
                    /\ response' = IF "error" \in DOMAIN last'.ret
                                   THEN Render("withdraw.html", last'.ret.error)
                                   ELSE Redirect("dashboard", "Successfully withdrew")
       ELSE response' = Render("withdraw.html", "") /\ NoStoreCall
    /\ UNCHANGED <<session, proc>>

transfer_route(method, form) ==
    /\ IF "account_number" \notin DOMAIN session
       THEN response' = LoginRequired /\ NoStoreCall
       ELSE IF method = "POST"
       THEN \E amount \in {float(Strip(Get(form, "amount", <<>>)))} :
            LET to_account == Get(form, "to_account", EmptyNumber)
                description == Get(form, "description", "Web transfer")
                password == Get(form, "password", "")
                Refuse(message) ==
                    response' = Render("transfer.html", message) /\ NoStoreCall
            IN IF password = "" THEN Refuse("Password is required for transactions.")
               ELSE IF to_account = EmptyNumber
               THEN Refuse("Destination account number is required.")
               ELSE IF amount = ValueError THEN Refuse("Invalid amount entered.")
               ELSE IF FLe(amount, Zero) THEN Refuse("Transfer amount must be positive.")
               ELSE /\ transfer(session.account_number, to_account, amount, password,
                                description)
                    /\ response' = IF "error" \in DOMAIN last'.ret
                                   THEN Render("transfer.html", last'.ret.error)
                                   ELSE Redirect("dashboard", "Successfully transferred")
       ELSE response' = Render("transfer.html", "") /\ NoStoreCall
    /\ UNCHANGED <<session, proc>>

\* mutant: the password field is looked at before the session
check_balance_password_first(form) ==
    /\ IF Get(form, "password", "") = ""
       THEN response' = Redirect("dashboard", "Password is required to check balance.")
       ELSE response' = LoginRequired
    /\ NoStoreCall
    /\ UNCHANGED <<session, proc>>

check_balance(form) ==
    /\ IF "account_number" \notin DOMAIN session
       THEN response' = LoginRequired /\ NoStoreCall
       ELSE LET password == Get(form, "password", "")
            IN IF password = ""
               THEN /\ response' = Redirect("dashboard",
                                            "Password is required to check balance.")
                    /\ NoStoreCall
               ELSE /\ get_balance(session.account_number, password)
                    /\ response' = IF "error" \in DOMAIN last'.ret
                                   THEN Redirect("dashboard", last'.ret.error)
                                   ELSE Redirect("dashboard", "Current balance")
    /\ UNCHANGED <<session, proc>>

history(method, form) ==
    /\ IF "account_number" \notin DOMAIN session
       THEN response' = LoginRequired /\ NoStoreCall
       ELSE IF method = "POST"
       THEN LET password == Get(form, "password", "")
            IN IF password = ""
               THEN /\ response' = Redirect("dashboard",
                                            "Password is required to view transaction history.")
                    /\ NoStoreCall
               ELSE /\ get_transaction_history(session.account_number, password,
                                               HistoryLimit)
                    /\ response' = IF "error" \in DOMAIN last'.ret
                                   THEN Redirect("dashboard", last'.ret.error)
                                   ELSE Render("history.html", "")
       ELSE response' = Redirect("dashboard", "") /\ NoStoreCall
    /\ UNCHANGED <<session, proc>>

\* what the browser sends
Methods == {"GET", "POST"}
WebPasswords == {"pw1", "pw12"}
FormAmounts == {<<"a">>, <<"0">>, <<"-", "1">>, <<" ", "1">>}

\* a form field that may be left out
Field(key, values) == {<<>>} \cup {key :> v : v \in values}

\* the description field, always filled in
DescriptionField == {"description" :> d : d \in Descriptions}

LoginForms ==
    {a @@ b : a \in Field("account_number", AccountInputs),
              b \in Field("password", WebPasswords)}
RegisterForms ==
    {a @@ b @@ c @@ d : a \in Field("name", Names),
                        b \in Field("password", WebPasswords),
                        c \in Field("confirm_password", {"pw12"}),
                        d \in Field("initial_deposit", FormAmounts)}
AmountForms ==
    {a @@ b @@ c : a \in Field("amount", FormAmounts),
                   b \in Field("password", WebPasswords),
                   c \in DescriptionField}
TransferForms ==
    {a @@ b : a \in AmountForms, b \in Field("to_account", AccountInputs)}
PasswordForms == Field("password", WebPasswords)

\* a GET request carries no form
Forms(method, forms) == IF method = "POST" THEN forms ELSE {<<>>}

\* the part of the state space the model of the web interface explores
WebBounds == WithinBounds /\ Len(_load_transactions) <= MaxWebLog

NextWeb ==
    \/ index /\ WebBounds'
    \/ \E method \in Methods : \E form \in Forms(method, LoginForms) :
          login(method, form) /\ WebBounds'
    \/ \E method \in Methods : \E form \in Forms(method, RegisterForms) :
          register(method, form) /\ WebBounds'
    \/ logout /\ WebBounds'
    \/ dashboard /\ WebBounds'
    \/ \E method \in Methods : \E form \in Forms(method, AmountForms) :
          deposit_route(method, form) /\ WebBounds'
    \/ \E method \in Methods : \E form \in Forms(method, AmountForms) :
          withdraw_route(method, form) /\ WebBounds'
    \/ \E method \in Methods : \E form \in Forms(method, TransferForms) :
          transfer_route(method, form) /\ WebBounds'
    \/ \E form \in PasswordForms : check_balance(form) /\ WebBounds'
    \/ \E method \in Methods : \E form \in Forms(method, PasswordForms) :
          history(method, form) /\ WebBounds'

\* bank = DummyBank() on an empty data directory, and a browser without a session
SpecWeb == Init /\ [][NextWeb]_vars

\* TestFlaskApp.setUp: a store with two accounts, both created with a deposit
TestAccounts ==
    (AccountBase :> AccountRecord(AccountBase, "alice", Fin(1), "pw12", 0))
    @@ (AccountBase + 1 :> AccountRecord(AccountBase + 1, "alice", Fin(1), "pw1", 0))

TestTransactions ==
    _record_transaction(
        _record_transaction(Document(EmptyTransactions), AccountBase, "deposit", Fin(1),
                            <<"Initial deposit">>, AccountBase, 0),
        AccountBase + 1, "deposit", Fin(1), <<"Initial deposit">>, AccountBase + 1, 0)

\* with client.session_transaction() as session: the test puts the number of the
\* first account and its password in the session
TestSession == ("account_number" :> AccountBase) @@ ("password" :> "pw12")

\* the state a test of TestFlaskApp sends its requests from
InitWebTest ==
    /\ accounts_file = Document(TestAccounts)
    /\ transactions_file = TestTransactions
    /\ now = 0
    /\ last = [op |-> "create_account",
               ret |-> [account_number |-> AccountBase + 1,
                        name |-> "alice",
                        balance |-> Fin(1),
                        status |-> "Account created successfully"]]
    /\ proc = [p \in Procs |-> Idle([status |-> "none"], 0)]
    /\ session \in {EmptySession, TestSession}
    /\ response = NoResponse

SpecWebTest == InitWebTest /\ [][NextWeb]_vars

----------------------------------------------------------------------------
(* Properties of the store called one operation at a time *)

Accounts == _load_accounts
Log == _load_transactions

\* the last call returned a success mapping
Succeeded(op) ==
    /\ last.op = op
    /\ "status" \in DOMAIN last.ret
    /\ last.ret.status = "success"

\* the last call returned a failure mapping or raised
Failed == "error" \in DOMAIN last.ret \/ "raised" \in DOMAIN last.ret

FailedWith(op, message) == last = [op |-> op, ret |-> Error(message)]

Unchanged == UNCHANGED <<accounts_file, transactions_file>>

\* the account number is unknown or the password is not the stored one
BadCredentials(a, password) ==
    \/ a \notin DOMAIN Accounts
    \/ Accounts[a].password_hash # _hash_password(password)

\* C1: after any sequence of create_account, deposit, withdraw and transfer calls
\* every account's persisted balance is >= 0.
C1_BalanceNonNegative ==
    \A a \in DOMAIN Accounts : FGe(Accounts[a].balance, Zero)

\* C2: a successful transfer lowers the source's balance by exactly amount, raises
\* the destination's by exactly amount, keeps the sum of the two balances, and
\* returns the old and new balances of the accounts document.
C2_TransferConserves ==
    [][Succeeded("transfer")' =>
        LET r == last'.ret
            f == r.from_account
            t == r.to_account
            old == Accounts
            new == Accounts'
        IN /\ FEq(FSub(old[f].balance, new[f].balance), r.amount)
           /\ FEq(FSub(new[t].balance, old[t].balance), r.amount)
           /\ FEq(FAdd(old[f].balance, old[t].balance),
                  FAdd(new[f].balance, new[t].balance))
           /\ r.from_old_balance = old[f].balance
           /\ r.from_new_balance = new[f].balance
           /\ r.to_old_balance = old[t].balance
           /\ r.to_new_balance = new[t].balance]_vars

\* C3: every write of the accounts document that a transfer makes carries both the
\* debit of the source and the credit of the destination, computed from the balances
\* the transfer loaded; no write of a transfer carries one without the other.
C3_TransferSingleWrite ==
    [][\A p \in Procs :
          (proc[p].op = "transfer" /\ proc'[p] # proc[p] /\ accounts_file' # accounts_file) =>
             LET r == proc[p].ret
                 written == Accounts'
             IN /\ written[r.from_account].balance = FSub(r.from_old_balance, r.amount)
                /\ written[r.to_account].balance = FAdd(r.to_old_balance, r.amount)]_vars

C3_Witness ==
    \E p \in Procs :
       /\ proc[p].op = "transfer"
       /\ proc[p].pc = "record_load"
       /\ Accounts = proc[p].accounts

\* C4: each successful deposit and each successful withdraw appends exactly one
\* record, each successful transfer exactly two (a transfer_out then a transfer_in
\* with the same amount), and a call that fails appends none.
C4_RecordsPerOperation ==
    [][LET n == Len(Log)
           new == Log'
       IN /\ (Succeeded("deposit")' \/ Succeeded("withdraw")') => Len(new) = n + 1
          /\ Succeeded("transfer")' =>
                /\ Len(new) = n + 2
                /\ new[n + 1].transaction_type = "transfer_out"
                /\ new[n + 2].transaction_type = "transfer_in"
                /\ new[n + 1].amount = new[n + 2].amount
          /\ Failed' => new = Log]_vars

C4_Witness == Succeeded("transfer") /\ Len(Log) = 3

\* C5: the log before an operation is an unchanged prefix of the log after it.
C5_AppendOnly ==
    [][/\ Len(Log) <= Len(Log')
       /\ SubSeq(Log', 1, Len(Log)) = Log]_vars

C5_Witness == Succeeded("withdraw") /\ Len(Log) >= 2

\* C6: the record at position i of the log, counting from 1, has id i.
C6_IdsArePositions ==
    \A i \in 1..Len(Log) : Log[i].id = i

C6_Witness == Len(Log) = MaxLog

NonPositiveInputs == {amount \in AmountInputs : FLe(amount, Zero)}
PositiveInputs == {amount \in AmountInputs : FGt(amount, Zero)}

\* a call that does anything but hand back ret and leave both documents alone
Not(op, ret) == ~(last' = [op |-> op, ret |-> ret] /\ Unchanged)

\* C7: for every amount <= 0, deposit, withdraw and transfer return their validation
\* failure and leave the accounts document and the log unchanged.
C7_NonPositiveRejected ==
    \A amount \in NonPositiveInputs, a \in AccountInputs, password \in Passwords,
       description \in Descriptions :
       /\ ~ENABLED (/\ deposit(a, amount, password, description)
                    /\ Not("deposit", Error("Deposit amount must be positive")))
       /\ ~ENABLED (/\ withdraw(a, amount, password, description)
                    /\ Not("withdraw", Error("Withdrawal amount must be positive")))
       /\ \A b \in AccountInputs :
             ~ENABLED (/\ transfer(a, b, amount, password, description)
                       /\ Not("transfer", Error("Transfer amount must be positive")))

C7_Witness ==
    /\ FailedWith("withdraw", "Withdrawal amount must be positive")
    /\ \E a \in DOMAIN Accounts : FGt(Accounts[a].balance, Zero)

\* C8, as claimed: every withdraw request whose amount is greater than the account's
\* current balance fails with 'Insufficient funds' and leaves the balance unchanged.
C8_OverdrawAlwaysInsufficientFunds ==
    \A a \in DOMAIN Accounts, amount \in AmountInputs, password \in Passwords,
       description \in Descriptions :
       FGt(amount, Accounts[a].balance) =>
          ~ENABLED (/\ withdraw(a, amount, password, description)
                    /\ Not("withdraw", Error("Insufficient funds")))

\* C8, amended: every withdraw request with valid credentials whose amount is greater
\* than the account's current balance fails with 'Insufficient funds' and leaves the
\* balance unchanged.
C8_AuthenticatedOverdrawInsufficientFunds ==
    \A a \in DOMAIN Accounts, amount \in AmountInputs, password \in Passwords,
       description \in Descriptions :
       (~BadCredentials(a, password) /\ FGt(amount, Accounts[a].balance)) =>
          ~ENABLED (/\ withdraw(a, amount, password, description)
                    /\ Not("withdraw", Error("Insufficient funds")))

C8_Witness ==
    /\ FailedWith("withdraw", "Insufficient funds")
    /\ \E a \in DOMAIN Accounts : FGt(Accounts[a].balance, Zero)

\* C9: a transfer whose to_account is not a key of the accounts document returns a
\* failure and leaves the accounts document and the log unchanged.
C9_UnknownDestinationNoEffect ==
    \A a \in AccountInputs, b \in AccountInputs \ DOMAIN Accounts,
       amount \in AmountInputs, password \in Passwords, description \in Descriptions :
       ~ENABLED (/\ transfer(a, b, amount, password, description)
                 /\ ~("error" \in DOMAIN last'.ret /\ Unchanged))

C9_Witness ==
    /\ last = [op |-> "transfer", ret |-> UnknownAccount]
    /\ \E a \in DOMAIN Accounts : FGt(Accounts[a].balance, Zero)

\* the authenticated calls other than transfer, made with (a, password), all hand
\* back the authentication failure and change nothing
OthersFailAuth(a, password) ==
    /\ \A amount \in PositiveInputs, description \in Descriptions :
          /\ ~ENABLED (/\ deposit(a, amount, password, description)
                       /\ Not("deposit", AuthFailure))
          /\ ~ENABLED (/\ withdraw(a, amount, password, description)
                       /\ Not("withdraw", AuthFailure))
    /\ ~ENABLED (get_balance(a, password) /\ Not("get_balance", AuthFailure))
    /\ ~ENABLED (get_account_info(a, password) /\ Not("get_account_info", AuthFailure))
    /\ \A limit \in LimitInputs :
          ~ENABLED (/\ get_transaction_history(a, password, limit)
                    /\ Not("get_transaction_history", AuthFailure))

\* C10, as claimed: deposit, withdraw, transfer (with a positive amount), get_balance,
\* get_account_info and get_transaction_history called with an unknown account number
\* or a wrong password return 'Invalid account number or password' and leave both
\* documents unchanged.
C10_BadCredentialsAuthFailure ==
    \A a \in AccountInputs, password \in Passwords :
       BadCredentials(a, password) =>
          /\ OthersFailAuth(a, password)
          /\ \A b \in AccountInputs, amount \in PositiveInputs, description \in Descriptions :
                ~ENABLED (/\ transfer(a, b, amount, password, description)
                          /\ Not("transfer", AuthFailure))

\* C10, amended: the same, where transfer is called with from_account # to_account.
C10_BadCredentialsAuthFailureDistinct ==
    \A a \in AccountInputs, password \in Passwords :
       BadCredentials(a, password) =>
          /\ OthersFailAuth(a, password)
          /\ \A b \in AccountInputs \ {a}, amount \in PositiveInputs,
                description \in Descriptions :
                ~ENABLED (/\ transfer(a, b, amount, password, description)
                          /\ Not("transfer", AuthFailure))

C10_Witness ==
    /\ last = [op |-> "deposit", ret |-> AuthFailure]
    /\ DOMAIN Accounts # {}

\* the initial deposits create_account accepts
AcceptedDeposits == {d \in AmountInputs : ~NegativeDeposit(d)}

\* C11: authenticate returns false for every password when the account number is not
\* in the store; for the account a create_account call makes it returns true exactly
\* for the password given to that call; and no later operation changes what it
\* returns for a stored account.
C11_AuthenticateExactPassword ==
    /\ [](\A password \in Passwords :
            /\ \A a \in AccountInputs \ DOMAIN Accounts : ~authenticate(a, password)
            /\ \A name \in Names, initial_deposit \in AcceptedDeposits, given \in Passwords :
                  ~ENABLED (/\ create_account(name, initial_deposit, given)
                            /\ \E n \in AccountInputs :
                                  /\ last'.ret.account_number = n
                                  /\ ~(authenticate(n, password)' <=> password = given)))
    /\ [][\A a \in DOMAIN Accounts, password \in Passwords :
             authenticate(a, password)' = authenticate(a, password)]_vars

C11_Witness ==
    /\ Succeeded("transfer")
    /\ \E a \in DOMAIN Accounts : authenticate(a, "pw1") /\ ~authenticate(a, "pw2")
    /\ \E a \in DOMAIN Accounts : authenticate(a, "pw2") /\ ~authenticate(a, "pw1")

\* the failures the operations return
FailureResults ==
    {Error(message) : message \in {"Invalid account number or password",
                                   "Deposit amount must be positive",
                                   "Withdrawal amount must be positive",
                                   "Transfer amount must be positive",
                                   "Cannot transfer to the same account",
                                   "Destination account does not exist",
                                   "Insufficient funds"}}

\* the calls other than transfer return the same failure, and nothing but a failure,
\* for the unknown number u and for the stored number a with the wrong password
SameFailureOthers(u, a, password) ==
    /\ \A ret \in FailureResults :
          /\ ENABLED (get_balance(u, password) /\ last'.ret = ret)
                => ~ENABLED (get_balance(a, password) /\ last'.ret # ret)
          /\ ENABLED (get_account_info(u, password) /\ last'.ret = ret)
                => ~ENABLED (get_account_info(a, password) /\ last'.ret # ret)
    /\ ~ENABLED (get_balance(u, password) /\ last'.ret \notin FailureResults)
    /\ ~ENABLED (get_account_info(u, password) /\ last'.ret \notin FailureResults)
    /\ \A limit \in LimitInputs :
          /\ \A ret \in FailureResults :
                ENABLED (get_transaction_history(u, password, limit) /\ last'.ret = ret)
                   => ~ENABLED (get_transaction_history(a, password, limit) /\ last'.ret # ret)
          /\ ~ENABLED (/\ get_transaction_history(u, password, limit)
                       /\ last'.ret \notin FailureResults)
    /\ \A amount \in AmountInputs, description \in Descriptions :
          /\ \A ret \in FailureResults :
                /\ ENABLED (deposit(u, amount, password, description) /\ last'.ret = ret)
                      => ~ENABLED (/\ deposit(a, amount, password, description)
                                   /\ last'.ret # ret)
                /\ ENABLED (withdraw(u, amount, password, description) /\ last'.ret = ret)
                      => ~ENABLED (/\ withdraw(a, amount, password, description)
                                   /\ last'.ret # ret)
          /\ ~ENABLED (/\ deposit(u, amount, password, description)
                       /\ last'.ret \notin FailureResults)
          /\ ~ENABLED (/\ withdraw(u, amount, password, description)
                       /\ last'.ret \notin FailureResults)

\* transfer to b returns the same failure, and nothing but a failure, from the
\* unknown number u and from the stored number a with the wrong password
SameFailureTransfer(u, a, b, password) ==
    \A amount \in AmountInputs, description \in Descriptions :
       /\ \A ret \in FailureResults :
             ENABLED (transfer(u, b, amount, password, description) /\ last'.ret = ret)
                => ~ENABLED (/\ transfer(a, b, amount, password, description)
                             /\ last'.ret # ret)
       /\ ~ENABLED (/\ transfer(u, b, amount, password, description)
                    /\ last'.ret \notin FailureResults)

\* C12, as claimed: for each authenticated operation and fixed other arguments, the
\* result for an account number that does not exist is identical to the result for an
\* existing account number with a wrong password.
C12_UniformFailure ==
    \A a \in DOMAIN Accounts, password \in Passwords :
       BadCredentials(a, password) =>
          \A u \in AccountInputs \ DOMAIN Accounts :
             /\ SameFailureOthers(u, a, password)
             /\ \A b \in AccountInputs : SameFailureTransfer(u, a, b, password)

\* C12, amended: the same, where transfer is called with a to_account that is
\* neither of the two account numbers compared.
C12_UniformFailureOtherDestination ==
    \A a \in DOMAIN Accounts, password \in Passwords :
       BadCredentials(a, password) =>
          \A u \in AccountInputs \ DOMAIN Accounts :
             /\ SameFailureOthers(u, a, password)
             /\ \A b \in AccountInputs \ {u, a} : SameFailureTransfer(u, a, b, password)

C12_Witness ==
    /\ last = [op |-> "transfer", ret |-> AuthFailure]
    /\ Cardinality(DOMAIN Accounts) = 1
    /\ \E a \in DOMAIN Accounts : FGt(Accounts[a].balance, Zero)

\* the log gained exactly one record, a deposit of amount D owned by and related to
\* account n, described as the initial deposit
GainedInitialDeposit(n, D) ==
    /\ Len(Log') = Len(Log) + 1
    /\ SubSeq(Log', 1, Len(Log)) = Log
    /\ LET t == Log'[Len(Log')]
       IN /\ t.account_number = n
          /\ t.transaction_type = "deposit"
          /\ FEq(t.amount, D)
          /\ t.description = <<"Initial deposit">>
          /\ t.related_account = n

\* C13: after create_account(name, D, password) with D >= 0 the new account's
\* persisted balance equals D, and the log gained one deposit record for that account
\* (amount D, description 'Initial deposit', related_account the account itself) if
\* and only if D > 0; otherwise the log is unchanged.
C13_CreateBalanceAndRecord ==
    \A name \in Names, password \in Passwords,
       D \in {d \in AmountInputs : FGe(d, Zero)} :
       ~ENABLED (/\ create_account(name, D, password)
                 /\ ~(/\ "account_number" \in DOMAIN last'.ret
                      /\ \E n \in DOMAIN Accounts' :
                            /\ last'.ret.account_number = n
                            /\ FEq(Accounts'[n].balance, D)
                            /\ IF FGt(D, Zero)
                               THEN GainedInitialDeposit(n, D)
                               ELSE Log' = Log))

C13_Witness ==
    /\ last.op = "create_account"
    /\ "account_number" \in DOMAIN last.ret
    /\ last.ret.account_number = AccountBase + 1
    /\ Accounts[AccountBase + 1].balance = Fin(1)
    /\ Accounts[AccountBase].balance = Zero
    /\ Len(Log) = 1

\* C14: create_account with initial_deposit < 0 raises instead of returning a result,
\* creates no account and appends no transaction: both documents are unchanged.
C14_NegativeDepositRaises ==
    \A name \in Names, password \in Passwords,
       D \in {d \in AmountInputs \cup {FNeg(PosInf)} : FLt(d, Zero)} :
       ~ENABLED (/\ create_account(name, D, password)
                 /\ ~(/\ "raised" \in DOMAIN last'.ret
                      /\ Unchanged))

C14_Witness ==
    /\ last = [op |-> "create_account",
               ret |-> [raised |-> "Initial deposit cannot be negative"]]
    /\ Len(Log) > 0

\* the step is a create_account call that returned a result
Created == last'.op = "create_account" /\ "account_number" \in DOMAIN last'.ret

\* C15: with operations executed one at a time, every successful create_account
\* assigns the smallest number at or above the base 1000000001 that is not a key of
\* the accounts document: it reuses no number, leaves every existing account record
\* as it was, and increases the number of accounts by exactly one.
C15_FreshSmallestNumber ==
    [][Created =>
          LET n == last'.ret.account_number
          IN /\ n >= AccountBase
             /\ n \notin DOMAIN Accounts
             /\ \A m \in AccountBase..(n - 1) : m \in DOMAIN Accounts
             /\ DOMAIN Accounts' = DOMAIN Accounts \cup {n}
             /\ \A a \in DOMAIN Accounts : Accounts'[a] = Accounts[a]
             /\ Cardinality(DOMAIN Accounts') = Cardinality(DOMAIN Accounts) + 1]_vars

C15_Witness ==
    /\ last.op = "create_account"
    /\ "account_number" \in DOMAIN last.ret
    /\ last.ret.account_number = AccountBase + 1
    /\ Cardinality(DOMAIN Accounts) = 2

\* C16: for every account and every integer-valued amount > 0, a successful deposit
\* of amount immediately followed by a withdraw of the same amount (with the
\* account's password) succeeds and leaves the balance equal to its value before the
\* deposit.
C16_DepositThenWithdrawRestores ==
    (Succeeded("deposit") /\ IsFinite(last.ret.amount)) =>
       \A password \in Passwords, description \in Descriptions :
          ~BadCredentials(last.ret.account_number, password) =>
             ~ENABLED (/\ withdraw(last.ret.account_number, last.ret.amount, password,
                                   description)
                       /\ ~(/\ Succeeded("withdraw")'
                            /\ FEq(Accounts'[last.ret.account_number].balance,
                                   last.ret.old_balance)))

\* the records of the log that account a owns, by position
Matching(a) == {i \in 1..Len(Log) : Log[i].account_number = a}

\* the record at position i is shown before the record at position j: it is more
\* recent, or as recent and appended earlier
ShownBefore(i, j) ==
    \/ Log[i].timestamp > Log[j].timestamp
    \/ Log[i].timestamp = Log[j].timestamp /\ i < j

\* the place of the record at position i in the history of account a
Rank(a, i) == Cardinality({j \in Matching(a) : ShownBefore(j, i)}) + 1

\* ret is the history of account a cut at limit
IsHistory(ret, a, limit) ==
    LET shown == IF limit > 0 /\ limit < Cardinality(Matching(a))
                 THEN limit
                 ELSE Cardinality(Matching(a))
    IN /\ ret.status = "success"
       /\ ret.account_number = a
       /\ ret.total_transactions = shown
       /\ Len(ret.transactions) = shown
       /\ \A k \in 1..shown :
             \E i \in Matching(a) : Rank(a, i) = k /\ ret.transactions[k] = Log[i]

\* C17: a successful get_transaction_history(account, password, limit) returns only
\* records of the queried account, newest first with records of equal timestamp in
\* append order; with limit > 0 exactly the first min(limit, number of matching
\* records) of that ordering, with limit <= 0 all of them.
C17_HistoryNewestFirst ==
    \A a \in DOMAIN Accounts, password \in Passwords, limit \in LimitInputs :
       ~BadCredentials(a, password) =>
          ~ENABLED (/\ get_transaction_history(a, password, limit)
                    /\ ~(/\ "status" \in DOMAIN last'.ret
                         /\ IsHistory(last'.ret, a, limit)))

C17_Witness ==
    /\ Succeeded("get_transaction_history")
    /\ Cardinality(Matching(last.ret.account_number)) = 3
    /\ Len(last.ret.transactions) = 2
    /\ last.ret.transactions[1].timestamp = last.ret.transactions[2].timestamp
    /\ last.ret.transactions[1].id = 2
    /\ Log[1].timestamp < Log[2].timestamp

\* C18: constructing a store writes an empty accounts mapping and an empty log only
\* where the document is absent and leaves a document that exists as it is; what the
\* documents read as is the same before and after, so the new instance reports the
\* balances and history of all earlier operations; constructing twice is the same as
\* constructing once.
C18_ConstructionIdempotent ==
    /\ ~ENABLED (/\ __init__
                 /\ ~(/\ accounts_file' = IF accounts_file.exists
                                           THEN accounts_file
                                           ELSE Document(EmptyAccounts)
                      /\ transactions_file' = IF transactions_file.exists
                                               THEN transactions_file
                                               ELSE Document(EmptyTransactions)
                      /\ Accounts' = Accounts
                      /\ Log' = Log
                      /\ \A a \in DOMAIN Accounts, password \in Passwords :
                            authenticate(a, password)' = authenticate(a, password)))
    /\ (accounts_file.exists /\ transactions_file.exists)
          => ~ENABLED (__init__ /\ ~Unchanged)

C18_Witness ==
    /\ last.op = "__init__"
    /\ \E a \in DOMAIN Accounts : FGt(Accounts[a].balance, Zero)
    /\ Log = <<>>
    /\ transactions_file.exists

\* C19: list_all_accounts takes no credentials and returns exactly one summary per
\* account of the store, total_accounts being their number, each with the account's
\* number, name, balance, status and created_date, and none with the password hash.
C19_ListAllAccounts ==
    ~ENABLED (/\ list_all_accounts
              /\ ~(/\ Unchanged
                   /\ last'.ret.status = "success"
                   /\ last'.ret.total_accounts = Cardinality(DOMAIN Accounts)
                   /\ Len(last'.ret.accounts) = Cardinality(DOMAIN Accounts)
                   /\ \A a \in DOMAIN Accounts :
                         \E i \in 1..Len(last'.ret.accounts) :
                            last'.ret.accounts[i] =
                               [account_number |-> a,
                                name |-> Accounts[a].name,
                                balance |-> Accounts[a].balance,
                                status |-> Accounts[a].status,
                                created_date |-> Accounts[a].created_date]
                   /\ \A i \in 1..Len(last'.ret.accounts) :
                         LET summary == last'.ret.accounts[i]
                         IN /\ "password_hash" \notin DOMAIN summary
                            /\ DOMAIN summary = {"account_number", "name", "balance",
                                                 "status", "created_date"}))

C19_Witness ==
    /\ Succeeded("list_all_accounts")
    /\ last.ret.total_accounts = 2
    /\ last.ret.accounts[1].balance # last.ret.accounts[2].balance

\* C20: validation comes before authentication: with an unknown account or a wrong
\* password, deposit, withdraw and transfer called with amount <= 0 return the amount
\* failure, also when from_account = to_account, and transfer called with amount > 0
\* and from_account = to_account returns the same-account failure.
C20_ValidationBeforeAuthentication ==
    \A a \in AccountInputs, password \in Passwords, description \in Descriptions :
       BadCredentials(a, password) =>
          /\ \A amount \in NonPositiveInputs :
                /\ ~ENABLED (/\ deposit(a, amount, password, description)
                             /\ last'.ret # Error("Deposit amount must be positive"))
                /\ ~ENABLED (/\ withdraw(a, amount, password, description)
                             /\ last'.ret # Error("Withdrawal amount must be positive"))
                /\ \A b \in AccountInputs :
                      ~ENABLED (/\ transfer(a, b, amount, password, description)
                                /\ last'.ret # Error("Transfer amount must be positive"))
          /\ \A amount \in PositiveInputs :
                ~ENABLED (/\ transfer(a, a, amount, password, description)
                          /\ last'.ret # Error("Cannot transfer to the same account"))

C20_Witness ==
    /\ FailedWith("transfer", "Cannot transfer to the same account")
    /\ \A a \in DOMAIN Accounts : Accounts[a].password_hash = _hash_password("pw1")
    /\ Cardinality(DOMAIN Accounts) = 2

\* C21: in transfer, once the amount is positive and the two accounts differ, the
\* failures come in the order AuthFailure, UnknownAccount, InsufficientFunds: invalid
\* credentials give AuthFailure whether or not to_account exists, valid credentials
\* with an unknown to_account give UnknownAccount also when the source's balance is
\* below amount, and only then a balance below amount gives 'Insufficient funds'.
C21_TransferFailureOrder ==
    \A a \in AccountInputs, amount \in PositiveInputs, password \in Passwords,
       description \in Descriptions :
       \A b \in AccountInputs \ {a} :
          /\ BadCredentials(a, password) =>
                ~ENABLED (/\ transfer(a, b, amount, password, description)
                          /\ Not("transfer", AuthFailure))
          /\ (~BadCredentials(a, password) /\ b \notin DOMAIN Accounts) =>
                ~ENABLED (/\ transfer(a, b, amount, password, description)
                          /\ Not("transfer", UnknownAccount))
          /\ (/\ ~BadCredentials(a, password)
              /\ b \in DOMAIN Accounts
              /\ InsufficientFunds(Accounts[a].balance, amount)) =>
                ~ENABLED (/\ transfer(a, b, amount, password, description)
                          /\ Not("transfer", Error("Insufficient funds")))

\* an authenticated transfer to an unknown account from the only account, which
\* holds less than any positive amount
C21_Witness ==
    /\ last = [op |-> "transfer", ret |-> UnknownAccount]
    /\ Cardinality(DOMAIN Accounts) = 1
    /\ \A a \in DOMAIN Accounts : Accounts[a].balance = Zero

\* C22: a successful transfer appends exactly two records behind the log it found,
\* next to each other: first a transfer_out owned by the source with related_account
\* the destination, then a transfer_in owned by the destination with related_account
\* the source, both with the transferred amount.
C22_TransferRecordsMirrored ==
    [][Succeeded("transfer")' =>
        LET n == Len(Log)
            new == Log'
            r == last'.ret
        IN /\ Len(new) = n + 2
           /\ SubSeq(new, 1, n) = Log
           /\ r.from_account # r.to_account
           /\ new[n + 1].transaction_type = "transfer_out"
           /\ new[n + 1].account_number = r.from_account
           /\ new[n + 1].related_account = r.to_account
           /\ new[n + 1].amount = r.amount
           /\ new[n + 2].transaction_type = "transfer_in"
           /\ new[n + 2].account_number = r.to_account
           /\ new[n + 2].related_account = r.from_account
           /\ new[n + 2].amount = r.amount]_vars

\* a transfer from the second account to the first, behind the record of a deposit
C22_Witness ==
    /\ Succeeded("transfer")
    /\ last.ret.from_account > last.ret.to_account
    /\ Len(Log) >= 3
    /\ Log[Len(Log)].transaction_type = "transfer_in"
    /\ Log[Len(Log)].related_account = last.ret.from_account
    /\ Log[Len(Log) - 1].related_account = last.ret.to_account

----------------------------------------------------------------------------
(* Properties of the store called by several callers at once *)

\* caller p is back from a successful deposit of amount to account a that found
\* the balance old
DepositReturned(p, a, old, amount) ==
    /\ proc[p].pc = "idle"
    /\ "transaction_type" \in DOMAIN proc[p].ret
    /\ proc[p].ret.transaction_type = "deposit"
    /\ proc[p].ret.status = "success"
    /\ proc[p].ret.account_number = a
    /\ proc[p].ret.old_balance = old
    /\ proc[p].ret.amount = amount

\* C23: the last writer wins. The write a deposit or withdraw makes sets the
\* document to the mapping the call loaded with its own update, whatever another
\* caller wrote since the load; so, with the steps of two deposits to one account
\* interleaved, a state is reached in which both returned success and the document
\* holds one of the two updates (the witness).
C23_LastWriterWins ==
    [][\A p \in Procs :
          (/\ proc[p].pc = "save"
           /\ proc[p].op \in {"deposit", "withdraw"}
           /\ proc'[p] # proc[p]) =>
             LET r == proc[p].ret
                 a == r.account_number
             IN /\ DOMAIN Accounts' = DOMAIN proc[p].accounts
                /\ Accounts'[a].balance = r.new_balance
                /\ r.new_balance = IF proc[p].op = "deposit"
                                   THEN FAdd(r.old_balance, r.amount)
                                   ELSE FSub(r.old_balance, r.amount)
                /\ \A x \in DOMAIN Accounts' \ {a} : Accounts'[x] = proc[p].accounts[x]]_vars

\* three calls were made, a create_account and two deposits of 1 to the account,
\* both deposits returned success, and the balance is 1
C23_Witness ==
    \E a \in DOMAIN Accounts :
       /\ \A p \in Procs : DepositReturned(p, a, Zero, Fin(1))
       /\ proc["p1"].calls + proc["p2"].calls = 3
       /\ Accounts[a].balance = Fin(1)

\* the mapping is one a call returns: a success mapping, or a failure with a
\* message under 'error'
ResultValue(ret) ==
    \/ "error" \in DOMAIN ret
    \/ "status" \in DOMAIN ret /\ ret.status = "success"

----------------------------------------------------------------------------
(* Properties of the store on documents that are absent or unreadable *)

\* C25, as claimed: while the accounts document is missing or corrupt, no operation
\* answers as it answers a caller who failed to authenticate, or as it answers on
\* an empty store: get_balance, deposit, withdraw and transfer do not return the
\* authentication failure, and create_account does not create the first account.
C25_StoreUnavailableDistinct ==
    (Constructed /\ ~accounts_file.ok) =>
       /\ \A a \in AccountInputs, password \in IOPasswords :
             /\ ~ENABLED (get_balance(a, password) /\ last'.ret = AuthFailure)
             /\ \A amount \in {Fin(1)}, description \in Descriptions :
                   /\ ~ENABLED (/\ deposit(a, amount, password, description)
                                /\ last'.ret = AuthFailure)
                   /\ ~ENABLED (/\ withdraw(a, amount, password, description)
                                /\ last'.ret = AuthFailure)
                   /\ \A b \in AccountInputs \ {a} :
                         ~ENABLED (/\ transfer(a, b, amount, password, description)
                                   /\ last'.ret = AuthFailure)
       /\ \A name \in Names, initial_deposit \in IOAmountInputs, password \in IOPasswords :
             ~ENABLED (/\ create_account(name, initial_deposit, password)
                       /\ "account_number" \in DOMAIN last'.ret
                       /\ DOMAIN Accounts' = {AccountBase})

----------------------------------------------------------------------------
(* Properties of the web interface *)

\* the session holds account_number and password, as the test set them
TestLoggedIn == "account_number" \in DOMAIN session /\ "password" \in DOMAIN session

\* C26, as claimed: with the account number and the password in the session, a POST
\* to the deposit route that carries a positive amount and a description and no
\* password field raises the persisted balance of the account by that amount.
C26_DepositWithoutPasswordField ==
    TestLoggedIn =>
       \A amount \in {s \in FormAmounts : float(s) # ValueError /\ FGt(float(s), Zero)},
          description \in Descriptions :
          ~ENABLED (/\ deposit_route("POST",
                                     ("amount" :> amount) @@ ("description" :> description))
                    /\ Accounts'[session.account_number].balance
                          # FAdd(Accounts[session.account_number].balance, float(amount)))

\* the request is answered with the redirect to login, and neither the store nor
\* the session was touched
LoginRefused ==
    /\ response' = LoginRequired
    /\ UNCHANGED <<accounts_file, transactions_file, now, last, session>>

\* C27: a request to dashboard, deposit, withdraw, transfer, check_balance or history
\* that arrives while the session holds no account_number is redirected to login and
\* calls no operation of the store: both documents are unchanged.
C27_RoutesRequireLogin ==
    "account_number" \notin DOMAIN session =>
       /\ ~ENABLED (dashboard /\ ~LoginRefused)
       /\ \A method \in Methods :
             /\ \A form \in AmountForms \cup {<<>>} :
                   /\ ~ENABLED (deposit_route(method, form) /\ ~LoginRefused)
                   /\ ~ENABLED (withdraw_route(method, form) /\ ~LoginRefused)
             /\ \A form \in TransferForms \cup {<<>>} :
                   ~ENABLED (transfer_route(method, form) /\ ~LoginRefused)
             /\ \A form \in PasswordForms :
                   ~ENABLED (history(method, form) /\ ~LoginRefused)
       /\ \A form \in PasswordForms : ~ENABLED (check_balance(form) /\ ~LoginRefused)

\* a request was refused after a logout, the store holding an account with funds
C27_Witness ==
    /\ response = LoginRequired
    /\ session = EmptySession
    /\ \E a \in DOMAIN Accounts : FGt(Accounts[a].balance, Zero)

\* the account number the session holds, EmptyNumber if it holds none
SessionAccount(s) == IF "account_number" \in DOMAIN s THEN s.account_number ELSE EmptyNumber

\* the step is a login POST that the store answered with the account's data
LoggedIn(a) ==
    /\ response' = Redirect("dashboard", "Welcome back")
    /\ last'.op = "get_account_info"
    /\ "error" \notin DOMAIN last'.ret
    /\ last'.ret.account_number = a
    /\ a \in DOMAIN Accounts

\* the step is a registration that created account a
Registered(a) ==
    /\ response' = Redirect("dashboard", "Account created successfully!")
    /\ last'.op = "create_account"
    /\ "account_number" \in DOMAIN last'.ret
    /\ last'.ret.account_number = a
    /\ a \notin DOMAIN Accounts
    /\ a \in DOMAIN Accounts'

\* the step is a logout
LoggedOut ==
    /\ response' = Redirect("login", "You have been logged out successfully.")
    /\ session' = EmptySession

----------------------------------------------------------------------------
(* Properties of the effect of an operation on the accounts document *)

\* the accounts document after the step differs from the one before it at most in
\* the balance fields of the accounts in touched
OnlyBalancesOf(touched) ==
    /\ DOMAIN Accounts' = DOMAIN Accounts
    /\ \A x \in DOMAIN Accounts :
          IF x \in touched
          THEN [Accounts'[x] EXCEPT !.balance = Accounts[x].balance] = Accounts[x]
          ELSE Accounts'[x] = Accounts[x]

\* C29: a successful deposit or withdraw changes only the balance field of its
\* account, a successful transfer only the balance fields of source and destination:
\* every other account record and every other field is unchanged, the set of account
\* numbers is unchanged by them, and no operation removes an account.
C29_OnlyBalancesChange ==
    [][/\ (Succeeded("deposit")' \/ Succeeded("withdraw")') =>
             OnlyBalancesOf({last'.ret.account_number})
       /\ Succeeded("transfer")' =>
             OnlyBalancesOf({last'.ret.from_account, last'.ret.to_account})
       /\ DOMAIN Accounts \subseteq DOMAIN Accounts']_vars

\* a transfer between two of three accounts that have different passwords
C29_Witness ==
    /\ Succeeded("transfer")
    /\ Cardinality(DOMAIN Accounts) = 3
    /\ \E x \in DOMAIN Accounts :
          /\ x \notin {last.ret.from_account, last.ret.to_account}
          /\ Accounts[x].password_hash # Accounts[last.ret.from_account].password_hash

----------------------------------------------------------------------------
(* Properties of the order of the two writes within a call *)

\* what a record adds to the balance of its owner
Signed(r) ==
    IF r.transaction_type \in {"deposit", "transfer_in"}
    THEN r.amount.val
    ELSE -r.amount.val

\* the sum of what the records owned by a add to its balance
RECURSIVE Ledger(_, _)
Ledger(records, a) ==
    IF records = <<>>
    THEN 0
    ELSE Ledger(Tail(records), a)
         + (IF Head(records).account_number = a THEN Signed(Head(records)) ELSE 0)

\* the records caller p still has to append after it wrote the accounts document
Unlogged(p) ==
    IF proc[p].pc \in {"record_load", "record_save"} THEN proc[p].pending ELSE <<>>

RECURSIVE UnloggedOf(_)
UnloggedOf(callers) ==
    IF callers = {}
    THEN <<>>
    ELSE LET p == CHOOSE q \in callers : TRUE
         IN Unlogged(p) \o UnloggedOf(callers \ {p})

\* C30: within a call the accounts document is written before the call's records
\* are appended. At every step the persisted balance of every account is the sum of
\* its records in the log (each owned by a stored account) plus the records the call in progress has persisted the
\* effect of and not yet appended: every record in the log has its effect in the
\* accounts document, and the changes persisted without a record are those of the
\* call between its accounts write and its last append (the witness).
C30_AccountsWrittenBeforeRecords ==
    /\ \A i \in 1..Len(Log) : Log[i].account_number \in DOMAIN Accounts
    /\ \A a \in DOMAIN Accounts :
          Accounts[a].balance = Fin(Ledger(Log, a) + Ledger(UnloggedOf(Procs), a))

\* a transfer has written both balances and appended its transfer_out record; the
\* credit of the destination is persisted and its record is not in the log
C30_Witness ==
    \E p \in Procs :
       /\ proc[p].op = "transfer"
       /\ proc[p].pc = "record_load"
       /\ Len(proc[p].pending) = 1
       /\ Log # <<>>
       /\ Log[Len(Log)].transaction_type = "transfer_out"
       /\ Accounts[proc[p].args.b].balance # Fin(Ledger(Log, proc[p].args.b))

----------------------------------------------------------------------------
(* Properties of the records of the log *)

TransactionTypes == {"deposit", "withdrawal", "transfer_out", "transfer_in"}

\* C31, as claimed: in every reachable state of the log each record has amount > 0
\* and a transaction_type among deposit, withdrawal, transfer_out and transfer_in;
\* a deposit or withdrawal record names its own account as related_account, a
\* transfer_out or transfer_in record names another account.
C31_RecordsWellFormed ==
    \A i \in 1..Len(Log) :
       LET r == Log[i]
       IN /\ FGt(r.amount, Zero)
          /\ r.transaction_type \in TransactionTypes
          /\ r.transaction_type \in {"deposit", "withdrawal"}
                => r.related_account = r.account_number
          /\ r.transaction_type \in {"transfer_out", "transfer_in"}
                => r.related_account # r.account_number

----------------------------------------------------------------------------
(* Properties of reads and appends while a document is missing or corrupt *)

\* what list_all_accounts returns on a store without accounts
NoAccountsListed == [accounts |-> <<>>, total_accounts |-> 0, status |-> "success"]

\* what get_transaction_history returns for an account without records
NoHistory(a) ==
    [account_number |-> a, transactions |-> <<>>, total_transactions |-> 0,
     status |-> "success"]

----------------------------------------------------------------------------
(* Properties of the balances against the log *)

\* the multiples of 2^53 in what the records owned by a add to its balance
RECURSIVE LedgerBig(_, _)
LedgerBig(records, a) ==
    IF records = <<>>
    THEN 0
    ELSE LedgerBig(Tail(records), a)
         + (IF Head(records).account_number # a
            THEN 0
            ELSE IF Head(records).transaction_type \in {"deposit", "transfer_in"}
            THEN Head(records).amount.big
            ELSE -Head(records).amount.big)

\* C33, as claimed: after any sequence of operations executed one at a time from an
\* empty store, over integer-valued amounts, the balance of each account is the sum
\* of the amounts of its deposit and transfer_in records minus the sum of the
\* amounts of its withdrawal and transfer_out records.
C33_LedgerConsistency ==
    \A a \in DOMAIN Accounts :
       /\ Accounts[a].balance.big = LedgerBig(Log, a)
       /\ Accounts[a].balance.val = Ledger(Log, a)

----------------------------------------------------------------------------
(* Properties of the funds check *)

\* C34, as claimed: a withdraw, or a transfer to another account of the store, of
\* exactly the whole balance (amount == balance, amount > 0) with valid credentials
\* succeeds and leaves the source balance at 0; 'Insufficient funds' is returned
\* only when the balance is strictly less than the amount.
C34_WholeBalanceSucceeds ==
    \A a \in DOMAIN Accounts, amount \in AmountInputs, password \in Passwords,
       description \in Descriptions :
       /\ (/\ ~BadCredentials(a, password)
           /\ FEq(amount, Accounts[a].balance)
           /\ FGt(amount, Zero)) =>
             /\ ~ENABLED (/\ withdraw(a, amount, password, description)
                          /\ ~(/\ Succeeded("withdraw")'
                               /\ FEq(Accounts'[a].balance, Zero)))
             /\ \A b \in DOMAIN Accounts \ {a} :
                   ~ENABLED (/\ transfer(a, b, amount, password, description)
                             /\ ~(/\ Succeeded("transfer")'
                                  /\ FEq(Accounts'[a].balance, Zero)))
       /\ ~FLt(Accounts[a].balance, amount) =>
             /\ ~ENABLED (/\ withdraw(a, amount, password, description)
                          /\ last'.ret = Error("Insufficient funds"))
             /\ \A b \in AccountInputs :
                   ~ENABLED (/\ transfer(a, b, amount, password, description)
                             /\ last'.ret = Error("Insufficient funds"))

----------------------------------------------------------------------------
(* Properties of calls that interleave at their file reads and writes *)

\* C35: however create_account, deposit, withdraw and transfer calls interleave at
\* their whole-file reads and writes, no persisted balance is negative: every write
\* stores balances computed from a snapshot that passed the funds check. The
\* withdrawals can still exceed what the log allows (the witness).
C35_NoNegativeBalanceInterleaved ==
    \A a \in DOMAIN Accounts : ~FLt(Accounts[a].balance, Zero)

\* the records of an account debit more than they credit: two withdrawals of the
\* same balance both passed the funds check
C35_Witness ==
    \E a \in DOMAIN Accounts :
       /\ Ledger(Log, a) < 0
       /\ Accounts[a].balance = Zero
       /\ \A p \in Procs : proc[p].pc = "idle"

\* C36: however the calls interleave at their whole-file reads and writes, every
\* persisted state of the log, and every list a call is about to write, has id i on
\* the record at position i; what a race loses is whole records (the witness).
C36_IdsArePositionsInterleaved ==
    /\ \A i \in 1..Len(Log) : Log[i].id = i
    /\ \A p \in Procs :
          proc[p].pc = "record_save" =>
             \A i \in 1..Len(proc[p].transactions) : proc[p].transactions[i].id = i

\* an account was created with an initial deposit and both callers then returned
\* from a successful deposit: three records were written, the log holds two
C36_Witness ==
    /\ \A p \in Procs :
          /\ proc[p].pc = "idle"
          /\ "transaction_type" \in DOMAIN proc[p].ret
          /\ proc[p].ret.transaction_type = "deposit"
    /\ Len(Log) = 2
    /\ Log[1].description = <<"Initial deposit">>
    /\ Log[2].id = 2

\* caller p made one call, a create_account that returned success
CreatedOnce(p) ==
    /\ proc[p].pc = "idle"
    /\ proc[p].calls = 1
    /\ "account_number" \in DOMAIN proc[p].ret

\* C37: two interleaved create_account calls can both return success and leave one
\* account in the document. The write of a create_account stores the snapshot the
\* call loaded with its own record added, whatever was saved since the load; so when
\* both calls have returned, either they got the same number and the document holds
\* that one key, or the numbers differ and the document holds the later writer's
\* key, alone when its snapshot was taken before the other account was saved (the
\* witness).
C37_CreateRaceLosesAccount ==
    /\ []((CreatedOnce("p1") /\ CreatedOnce("p2"))
             => LET n1 == proc["p1"].ret.account_number
                    n2 == proc["p2"].ret.account_number
                IN IF n1 = n2
                   THEN DOMAIN Accounts = {n1}
                   ELSE DOMAIN Accounts \in {{n1}, {n2}, {n1, n2}})
    /\ [][\A p \in Procs :
             (At(p, "create_account", "save") /\ proc'[p] # proc[p]) =>
                /\ Accounts' = proc[p].accounts
                /\ proc[p].number \in DOMAIN Accounts']_vars

\* both calls returned success with different account numbers and the document
\* holds one account
C37_Witness ==
    /\ CreatedOnce("p1")
    /\ CreatedOnce("p2")
    /\ proc["p1"].ret.account_number # proc["p2"].ret.account_number
    /\ Cardinality(DOMAIN Accounts) = 1

\* the log holds a record of the given type
Logged(transaction_type) ==
    \E i \in 1..Len(Log) : Log[i].transaction_type = transaction_type

\* C38: a transfer appends its two records by two separate read-append-rewrite steps
\* of the log: each of its writes sets the log to the list that step loaded with one
\* record added, the transfer_out record at the first write and the transfer_in
\* record at the second. Interleaved with another call that records a transaction,
\* the transfer returns success and the log keeps one of the two records without
\* the other (the witness).
C38_TransferRecordsWrittenSeparately ==
    [][\A p \in Procs :
          (At(p, "transfer", "record_save") /\ proc'[p] # proc[p]) =>
             LET r == Head(proc[p].pending)
                 n == Len(Log')
             IN /\ Log' = proc[p].transactions
                /\ Log'[n].transaction_type = r.transaction_type
                /\ Log'[n].account_number = r.account_number
                /\ r.transaction_type = IF Len(proc[p].pending) = 2
                                        THEN "transfer_out"
                                        ELSE "transfer_in"]_vars

\* a transfer returned success, every call has returned, and the log holds a
\* transfer_out record and no transfer_in record
C38_Witness ==
    /\ \A p \in Procs : proc[p].pc = "idle"
    /\ \E p \in Procs : "from_account" \in DOMAIN proc[p].ret
    /\ Logged("transfer_out")
    /\ ~Logged("transfer_in")

----------------------------------------------------------------------------
(* Properties of the log rewritten from a missing or corrupt document *)

\* the log is a readable document holding exactly the records of the given types,
\* all owned by the given accounts in that order, numbered from 1
RewrittenAs(log, types, owners) ==
    /\ log.ok
    /\ Len(log.data) = Len(types)
    /\ \A i \in 1..Len(types) :
          /\ log.data[i].id = i
          /\ log.data[i].transaction_type = types[i]
          /\ log.data[i].account_number = owners[i]

\* C39: when transactions.json is missing or corrupt at the moment a successful
\* create_account with a positive deposit, deposit, withdraw or transfer records its
\* transaction, the log is rewritten to hold only the record or records of that
\* call, numbered from id 1: the records written before are gone and their ids are
\* issued again.
C39_UnreadableLogRestartsFromOne ==
    (Constructed /\ ~transactions_file.ok) =>
       /\ \A name \in Names, password \in IOPasswords :
             ~ENABLED (/\ create_account(name, Fin(1), password)
                       /\ ~RewrittenAs(transactions_file', <<"deposit">>,
                                       <<last'.ret.account_number>>))
       /\ \A a \in AccountInputs, password \in IOPasswords, description \in Descriptions :
             /\ ~ENABLED (/\ deposit(a, Fin(1), password, description)
                          /\ Succeeded("deposit")'
                          /\ ~RewrittenAs(transactions_file', <<"deposit">>, <<a>>))
             /\ ~ENABLED (/\ withdraw(a, Fin(1), password, description)
                          /\ Succeeded("withdraw")'
                          /\ ~RewrittenAs(transactions_file', <<"withdrawal">>, <<a>>))
             /\ \A b \in AccountInputs :
                   ~ENABLED (/\ transfer(a, b, Fin(1), password, description)
                             /\ Succeeded("transfer")'
                             /\ ~RewrittenAs(transactions_file',
                                             <<"transfer_out", "transfer_in">>, <<a, b>>))

\* a withdrawal, which only a funded account can make, is the one record of the log
\* and has id 1: the record that funded the account is gone
C39_Witness ==
    /\ Succeeded("withdraw")
    /\ RewrittenAs(transactions_file, <<"withdrawal">>, <<last.ret.account_number>>)

====
